---- MODULE Spec2Model ----
(***************************************************************************)
(* Ticket lifecycle engine of the alert relay: ticket store, webhook       *)
(* intake, acknowledgement gateway (link and web), web resolve, project    *)
(* silence and the periodic escalation scheduler.                          *)
(*                                                                         *)
(* Every handler is a coroutine; it is cut into one action per store       *)
(* operation it awaits (the synchronous code that precedes the operation   *)
(* belongs to the same action).  Ticket.save() and Project.save() write    *)
(* the whole in-memory document over the stored one.                       *)
(***************************************************************************)
EXTENDS Integers, Sequences, FiniteSets, TLC

(***************************************************************************)
(* Bounds of the model                                                     *)
(***************************************************************************)
\* Spec: every handler interleaved with the scheduler
MaxTime == 2
MaxTickets == 1
MaxRequests == 3
MaxInflight == 1
NumProjects == 1
\* SpecTick: the intake and the scheduler alone
TickMaxTickets == 2
\* SpecPeriodic: the intake and a scheduler that completes a tick every minute
PeriodicMaxTime == 4
\* SpecIntake: the requests in flight at a time and the project ids issued
IntakeInflight == 2
IntakeMaxRequests == 2
\* SpecNotify: the console requests, those in flight at a time, and the
\* group ids issued
NotifyMaxRequests == 2
NotifyInflight == 2
NotifyMaxGroups == 3
\* SpecOutcome: the console requests
OutcomeMaxRequests == 1
IntakeMaxProjects == 2
\* requests (webhooks and console forms) of the console specification
ConsoleMaxRequests == 3

(***************************************************************************)
(* Values                                                                  *)
(***************************************************************************)
NULL == -1

\* Python None where a string is optional (acknowledged_by, group_name)
None == "None"

Projects == 1..NumProjects

Groups == {1, 2}

\* EscalationConfig.timeout_minutes values the projects are configured with
Timeouts == {1, 2}

\* the same under SpecPeriodic
PeriodicTimeouts == {2, 3}

\* NotificationGroup.repeat_interval values (NULL: no repeat)
RepeatIntervals == {NULL, 1}

\* minutes a silence request asks for
SilenceDurations == {2}

\* the duration field of the silence form: minutes, or NULL (absent or empty)
SilenceFields == SilenceDurations \cup {NULL}

Severities == {"critical", "warning"}

\* the same under SpecTick: upper case and the empty severity as well
TickSeverities == {"critical", "CRITICAL", "warning", ""}

Users == {"u1"}

\* the ids of the namespaces a specification starts with
Namespaces == {"ns1", "ns2"}

\* the namespace_slug of a request
NamespaceSlugs == Namespaces \cup {"nope"}

\* the body of a request: a JSON document or not
Bodies == {"json", "garbage"}

\* TicketStatus
IGNORED == "ignored"
PENDING == "pending"
ACKNOWLEDGED == "acknowledged"
ESCALATED == "escalated"
RESOLVED == "resolved"

\* EventType
EV_CREATED == "created"
EV_NOTIFIED == "notified"
EV_NOTIFIED_SILENCED == "notified_silenced"
EV_REPEATED == "repeated"
EV_ESCALATED == "escalated"
EV_MAX_LEVEL_REACHED == "max_level_reached"
EV_ACKNOWLEDGED == "acknowledged"
EV_RESOLVED == "resolved"

\* Optional[bool] of TicketEvent.success
SuccessNone == "None"
SuccessOf(b) == IF b THEN "True" ELSE "False"

\* secrets.token_urlsafe(32): a fresh token for every ticket
TokenOf(id) == IF id = 1 THEN "tok1" ELSE IF id = 2 THEN "tok2" ELSE "tok3"

\* the token strings a request may carry
RequestTokens == {"tok1", "tok2", "wrong"}

\* the format query parameter of GET /ack ("html" answers like "json" with a
\* page, any other value like "redirect")
Formats == {"redirect", "json"}

\* str.lower() on the severities of the model
Lower(s) == IF s = "CRITICAL" THEN "critical" ELSE s

\* truth value of an Optional[int] (None and 0 are false)
Truthy(x) == x # NULL /\ x # 0

VARIABLES
    now,        \* the wall clock (datetime.utcnow()), in minutes
    projects,   \* the projects collection: id -> document
    groups,     \* the notification_groups collection: id -> document
    namespaces, \* the namespaces collection: id -> document
    issued,     \* the number of ids issued so far, per collection with inserts
    tickets,    \* the tickets collection: sequence of documents, id = index
    reqs,       \* the HTTP requests in flight: slot -> coroutine state
    tick,       \* the scheduler job: coroutine state of the running tick
    resp,       \* the HTTP response the last step sent (NoResp: none)
    sent,       \* number of send_to_group calls of the last step that returned
    nreq,       \* number of HTTP requests received so far
    ticked,     \* (SpecPeriodic) a tick has run to completion since the clock last moved
    race,       \* history: per ticket, how far an acknowledgement racing with a tick got
    proc,       \* the process: "up", "stopped" (after stop_scheduler), "restarted"
                \* (after a crash and a new start)
    call        \* a call of a service function under test: its arguments, how far
                \* it got and what it returned (NoCall: none)

vars == <<now, projects, groups, namespaces, issued, tickets, reqs, tick, resp, sent, nreq, ticked,
          race, proc, call>>

(***************************************************************************)
(* Ticket model                                                            *)
(***************************************************************************)
TicketEvent(type, ts, level, group_name, success) ==
    [type |-> type, timestamp |-> ts, level |-> level,
     group_name |-> group_name, success |-> success]

\* Ticket.add_event: append an event stamped with the current time
add_event(t, type, level, group_name, success) ==
    [t EXCEPT !.events = Append(@, TicketEvent(type, now, level, group_name, success))]

\* Ticket(...) as built by the intake, with the model defaults
NewTicket(id, pid, severity) ==
    [project_id |-> pid,
     status |-> PENDING,
     escalation_level |-> 1,
     severity |-> severity,
     ack_token |-> TokenOf(id),
     acknowledged_at |-> NULL,
     acknowledged_by |-> None,
     last_notified_at |-> NULL,
     notification_count |-> 0,
     events |-> <<>>,
     created_at |-> now,
     updated_at |-> now,
     resolved_at |-> NULL]

\* a can_escalate that looks at the status only
can_escalate_any_severity(t) == t.status \in {PENDING, ESCALATED}

\* Ticket.can_escalate
can_escalate(t) ==
    IF t.status \notin {PENDING, ESCALATED} THEN FALSE
    ELSE IF t.severity # "" THEN Lower(t.severity) = "critical" ELSE FALSE

\* Project.is_silenced, evaluated on a loaded project document
is_silenced(p) ==
    IF p.silenced_until = NULL THEN FALSE ELSE now < p.silenced_until

HasEvent(t, type) == \E i \in 1..Len(t.events) : t.events[i].type = type

(***************************************************************************)
(* Store                                                                   *)
(***************************************************************************)
TicketIds == 1..Len(tickets)

\* Ticket.get(id): <<ticket>> or <<>> when the id is absent
TicketGet(id) == IF id \in TicketIds THEN <<tickets[id]>> ELSE <<>>

\* Namespace.get(id): the id of the namespace, <<>> when there is none
NamespaceGet(nid) ==
    IF nid \in DOMAIN namespaces /\ namespaces[nid].exists THEN <<nid>> ELSE <<>>

\* Namespace.find_one(Namespace.slug == slug): the id of the namespace (the
\* index on slug is unique)
NamespaceFindOne(slug) ==
    LET found == {n \in DOMAIN namespaces : namespaces[n].exists /\ namespaces[n].slug = slug}
    IN  IF found = {} THEN <<>> ELSE <<CHOOSE n \in found : TRUE>>

\* NotificationGroup.get(id) on a state gs of the collection
GroupIn(gs, gid) == IF gid \in DOMAIN gs /\ gs[gid].exists THEN <<gs[gid]>> ELSE <<>>

\* NotificationGroup.get(id)
GroupGet(gid) == GroupIn(groups, gid)

\* Project.get(id)
ProjectGet(pid) == IF pid \in DOMAIN projects THEN <<projects[pid]>> ELSE <<>>

\* ticket.save(): the whole document replaces the stored one
TicketSave(id, t) == [tickets EXCEPT ![id] = t]

\* Ticket.find(project_id == pid, status in sts): ids with the loaded documents
TicketFind(pid, sts) ==
    LET F[i \in 0..Len(tickets)] ==
            IF i = 0 THEN <<>>
            ELSE IF tickets[i].project_id = pid /\ tickets[i].status \in sts
                 THEN Append(F[i - 1], [id |-> i, doc |-> tickets[i]])
                 ELSE F[i - 1]
    IN  F[Len(tickets)]

(***************************************************************************)
(* Coroutine states                                                        *)
(***************************************************************************)
NoReq ==
    [kind |-> "none", pc |-> "none", tid |-> 0, tk |-> <<>>, pr |-> <<>>,
     token |-> "", format |-> "", user |-> "", status |-> "", severity |-> "",
     pend |-> <<>>, group_name |-> None, target |-> <<>>, results |-> "none",
     namespace |-> <<>>, project_id |-> 0, body |-> "", form |-> <<>>,
     level |-> 0, reached |-> FALSE]

IdleTick ==
    [pc |-> "idle", projects |-> <<>>, project |-> <<>>, now |-> 0, max_level |-> 0,
     tickets |-> <<>>, cur |-> <<>>, group_name |-> None, results |-> "none",
     success |-> FALSE, raised |-> FALSE]

NoCall == [fn |-> "none"]

NoResp == [kind |-> "none", tid |-> 0, code |-> 0, status |-> "", token |-> ""]

\* the slots of the requests a specification starts with
InitialSlots == 1..MaxInflight

\* the slots of the requests in flight
Slots == DOMAIN reqs

FreeSlot(s) == reqs[s].kind = "none" /\ \A r \in 1..(s - 1) : reqs[r].kind # "none"

Respond(kind, tid, code, status) ==
    [kind |-> kind, tid |-> tid, code |-> code, status |-> status, token |-> ""]

(***************************************************************************)
(* Initial state: an empty ticket store and a configured project           *)
(***************************************************************************)
ProjectConfigs(timeouts) ==
    [id : Projects,
     namespace_id : {"ns1"},
     is_active : {TRUE},
     enabled : {TRUE},
     timeout_minutes : timeouts,
     notification_group_ids : {<<1, 2>>},
     notify_on_ack : {TRUE},
     silenced_until : {NULL}]

GroupName(gid) == IF gid = 1 THEN "g1" ELSE "g2"

\* the ids issued before a specification starts
InitIds == [projects |-> NumProjects, groups |-> Cardinality(Groups),
            namespaces |-> Cardinality(Namespaces)]

\* the namespaces a specification starts with: the slug of each is its id
InitNamespaces == [n \in Namespaces |-> [exists |-> TRUE, slug |-> n]]

GroupConfigs == [exists : {TRUE}, name : {"g1", "g2"}, repeat_interval : RepeatIntervals]

InitWith(timeouts) ==
    /\ now = 0
    /\ projects \in {f \in [Projects -> ProjectConfigs(timeouts)] :
                        \A p \in Projects : f[p].id = p}
    /\ groups \in {g \in [Groups -> GroupConfigs] : \A i \in Groups : g[i].name = GroupName(i)}
    /\ namespaces = InitNamespaces /\ issued = InitIds
    /\ tickets = <<>>
    /\ reqs = [s \in InitialSlots |-> NoReq]
    /\ tick = IdleTick
    /\ resp = NoResp
    /\ sent = 0
    /\ nreq = 0
    /\ ticked = FALSE
    /\ race = <<>>
    /\ proc = "up"
    /\ call = NoCall

Init == InitWith(Timeouts)

(***************************************************************************)
(* The clock                                                               *)
(***************************************************************************)
Advance ==
    /\ now' = now + 1
    /\ resp' = NoResp
    /\ sent' = 0
    /\ UNCHANGED <<projects, groups, namespaces, issued, tickets, reqs, tick, nreq>>

(***************************************************************************)
(* Notification dispatcher (services/notification.py)                      *)
(***************************************************************************)
\* what one call of send_to_group can report
DispatchOutcomes == {"some_ok", "all_failed", "no_channel"}

\* what one call of send_to_group can do: report, or raise (a slack channel
\* config with a stored contact)
SendOutcomes == DispatchOutcomes \cup {"raises"}

\* a success flag that is set whenever some channel was tried
AnySuccessIfTried(outcome) == outcome # "no_channel"

\* success = any(results.values()) if results else False
AnySuccess(outcome) == outcome = "some_ok"

\* a notify_ticket that falls back to the last group when the level exceeds
\* the groups of the project
notify_ticket_project_last_group(t, escalation_level) ==
    LET pr == ProjectGet(t.project_id) IN
    IF pr = <<>> THEN <<>>
    ELSE IF Len(pr[1].notification_group_ids) = 0 THEN <<>>
    ELSE IF escalation_level - 1 >= Len(pr[1].notification_group_ids)
        THEN <<pr[1].notification_group_ids[Len(pr[1].notification_group_ids)]>>
    ELSE <<pr[1].notification_group_ids[escalation_level]>>

\* notify_ticket up to its lookup of the group: the id of the group, <<>> when
\* it returns {} before
notify_ticket_project(t, escalation_level) ==
    LET pr == ProjectGet(t.project_id) IN
    IF pr = <<>> THEN <<>>
    ELSE IF Len(pr[1].notification_group_ids) = 0 THEN <<>>
    ELSE IF escalation_level - 1 >= Len(pr[1].notification_group_ids) THEN <<>>
    ELSE <<pr[1].notification_group_ids[escalation_level]>>

(***************************************************************************)
(* Intake: POST /webhook/{namespace_slug}/{project_id} (api/webhook.py)    *)
(***************************************************************************)
\* how the handler answers before it looks at the payload, "" when it goes
\* on; namespace is what Namespace.find_one returned
webhook_early(namespace, project_id, body) ==
    LET pr == ProjectGet(project_id) IN
    IF namespace = <<>> THEN "namespace_not_found"
    ELSE IF pr = <<>> \/ pr[1].namespace_id # namespace[1] THEN "project_not_found"
    ELSE IF ~pr[1].is_active THEN "ignored"
    ELSE IF body # "json" THEN "invalid_json"
    ELSE ""

\* the request arrives and the namespace is looked up by its slug
receive_webhook(s, namespace_slug, project_id, body, status, severity) ==
    /\ FreeSlot(s)
    /\ nreq' = nreq + 1
    /\ LET namespace == NamespaceFindOne(namespace_slug) IN
       IF webhook_early(namespace, project_id, body) = "namespace_not_found"
       THEN /\ resp' = Respond("webhook", 0, 404, "not_found")
            /\ UNCHANGED reqs
       ELSE /\ reqs' = [reqs EXCEPT ![s] =
                    [NoReq EXCEPT !.kind = "webhook", !.pc = "namespace",
                                  !.namespace = namespace, !.project_id = project_id,
                                  !.body = body, !.status = status, !.severity = severity]]
            /\ resp' = NoResp
    /\ sent' = 0
    /\ UNCHANGED <<now, projects, groups, namespaces, issued, tickets, tick>>

\* a handler that keeps a record of the events of a disabled project: it
\* inserts a ticket of status ignored before it answers "ignored"
receive_webhook_project_recording_ignored(s) ==
    /\ reqs[s].kind = "webhook" /\ reqs[s].pc = "namespace"
    /\ LET early == webhook_early(reqs[s].namespace, reqs[s].project_id, reqs[s].body) IN
       IF early = "project_not_found"
       THEN /\ resp' = Respond("webhook", 0, 404, "not_found")
            /\ reqs' = [reqs EXCEPT ![s] = NoReq]
            /\ UNCHANGED tickets
       ELSE IF early = "ignored"
       THEN /\ resp' = Respond("webhook", 0, 200, "ignored")
            /\ tickets' = Append(tickets,
                    [add_event(NewTicket(Len(tickets) + 1, reqs[s].project_id,
                                         reqs[s].severity),
                               EV_CREATED, NULL, None, SuccessNone)
                     EXCEPT !.status = IGNORED])
            /\ reqs' = [reqs EXCEPT ![s] = NoReq]
       ELSE IF early = "invalid_json"
       THEN /\ resp' = Respond("webhook", 0, 400, "invalid_json")
            /\ reqs' = [reqs EXCEPT ![s] = NoReq]
            /\ UNCHANGED tickets
       ELSE /\ reqs' = [reqs EXCEPT ![s].pc = "parsed",
                                    ![s].pr = ProjectGet(reqs[s].project_id)]
            /\ resp' = NoResp
            /\ UNCHANGED tickets
    /\ sent' = 0
    /\ UNCHANGED <<now, projects, groups, namespaces, issued, tick, nreq>>

\* the project is looked up and checked against the namespace, and the
\* payload parsed
receive_webhook_project(s) ==
    /\ reqs[s].kind = "webhook" /\ reqs[s].pc = "namespace"
    /\ LET early == webhook_early(reqs[s].namespace, reqs[s].project_id, reqs[s].body) IN
       IF early = "project_not_found"
       THEN /\ resp' = Respond("webhook", 0, 404, "not_found")
            /\ reqs' = [reqs EXCEPT ![s] = NoReq]
       ELSE IF early = "ignored"
       THEN /\ resp' = Respond("webhook", 0, 200, "ignored")
            /\ reqs' = [reqs EXCEPT ![s] = NoReq]
       ELSE IF early = "invalid_json"
       THEN /\ resp' = Respond("webhook", 0, 400, "invalid_json")
            /\ reqs' = [reqs EXCEPT ![s] = NoReq]
       ELSE /\ reqs' = [reqs EXCEPT ![s].pc = "parsed",
                                    ![s].pr = ProjectGet(reqs[s].project_id)]
            /\ resp' = NoResp
    /\ sent' = 0
    /\ UNCHANGED <<now, projects, groups, namespaces, issued, tickets, tick, nreq>>

\* an auto-close that loads the escalated tickets of the project as well
receive_webhook_find_open(s) ==
    /\ reqs[s].kind = "webhook" /\ reqs[s].pc = "parsed"
    /\ reqs[s].status = "resolved"
    /\ LET pending_tickets == TicketFind(reqs[s].pr[1].id, {PENDING, ESCALATED}) IN
       IF pending_tickets = <<>>
       THEN /\ resp' = Respond("webhook", 0, 200, "resolved")
            /\ reqs' = [reqs EXCEPT ![s] = NoReq]
       ELSE /\ resp' = NoResp
            /\ reqs' = [reqs EXCEPT ![s].pc = "resolving", ![s].pend = pending_tickets]
    /\ sent' = 0
    /\ UNCHANGED <<now, projects, groups, namespaces, issued, tickets, tick, nreq>>

\* a resolved event: the pending tickets of the project are loaded
receive_webhook_find_pending(s) ==
    /\ reqs[s].kind = "webhook" /\ reqs[s].pc = "parsed"
    /\ reqs[s].status = "resolved"
    /\ LET pending_tickets == TicketFind(reqs[s].pr[1].id, {PENDING}) IN
       IF pending_tickets = <<>>
       THEN /\ resp' = Respond("webhook", 0, 200, "resolved")
            /\ reqs' = [reqs EXCEPT ![s] = NoReq]
       ELSE /\ resp' = NoResp
            /\ reqs' = [reqs EXCEPT ![s].pc = "resolving", ![s].pend = pending_tickets]
    /\ sent' = 0
    /\ UNCHANGED <<now, projects, groups, namespaces, issued, tickets, tick, nreq>>

\* a resolve that does not stamp resolved_at
ResolvedUnstamped(t) ==
    add_event([t EXCEPT !.status = RESOLVED, !.updated_at = now],
              EV_RESOLVED, NULL, None, SuccessNone)

\* the ticket document a resolve writes
Resolved(t) ==
    add_event([t EXCEPT !.status = RESOLVED, !.resolved_at = now, !.updated_at = now],
              EV_RESOLVED, NULL, None, SuccessNone)

\* the next loaded pending ticket is resolved and saved; after the last one the
\* summary is returned
receive_webhook_resolve(s) ==
    /\ reqs[s].kind = "webhook" /\ reqs[s].pc = "resolving"
    /\ LET e == Head(reqs[s].pend) IN
       tickets' = TicketSave(e.id, Resolved(e.doc))
    /\ IF Len(reqs[s].pend) = 1
       THEN /\ resp' = Respond("webhook", 0, 200, "resolved")
            /\ reqs' = [reqs EXCEPT ![s] = NoReq]
       ELSE /\ resp' = NoResp
            /\ reqs' = [reqs EXCEPT ![s].pend = Tail(@)]
    /\ sent' = 0
    /\ UNCHANGED <<now, projects, groups, namespaces, issued, tick, nreq>>

\* Ticket(...) followed by the CREATED event
Created(id, pid, severity) ==
    add_event(NewTicket(id, pid, severity), EV_CREATED, NULL, None, SuccessNone)

\* any other event: the ticket is built and inserted; while the loaded project
\* is silenced the request ends here
receive_webhook_insert(s) ==
    /\ reqs[s].kind = "webhook" /\ reqs[s].pc = "parsed"
    /\ reqs[s].status # "resolved"
    /\ LET id == Len(tickets) + 1
           pr == reqs[s].pr[1]
           t0 == Created(id, pr.id, reqs[s].severity)
       IN IF is_silenced(pr)
          THEN /\ tickets' = Append(tickets,
                       add_event(t0, EV_NOTIFIED_SILENCED, 1, None, SuccessNone))
               /\ resp' = Respond("webhook", id, 200, "silenced")
               /\ reqs' = [reqs EXCEPT ![s] = NoReq]
          ELSE /\ tickets' = Append(tickets, t0)
               /\ reqs' = [reqs EXCEPT ![s].pc = "inserted", ![s].tid = id,
                                       ![s].tk = <<t0>>]
               /\ resp' = NoResp
    /\ sent' = 0
    /\ UNCHANGED <<now, projects, groups, namespaces, issued, tick, nreq>>

\* the ticket document the intake saves after notify_ticket(ticket, 1)
Notified(t, group_name, success) ==
    [add_event(t, EV_NOTIFIED, 1, group_name, SuccessOf(success))
     EXCEPT !.last_notified_at = now,
            !.notification_count = 1]

\* the first group of the project the request loaded is looked up for its
\* name
receive_webhook_first_group(s) ==
    /\ reqs[s].kind = "webhook" /\ reqs[s].pc = "inserted"
    /\ LET pr == reqs[s].pr[1]
           first_group == IF Len(pr.notification_group_ids) > 0
                          THEN GroupGet(pr.notification_group_ids[1]) ELSE <<>>
           group_name == IF first_group # <<>> THEN first_group[1].name ELSE None
       IN reqs' = [reqs EXCEPT ![s].pc = "named", ![s].group_name = group_name]
    /\ resp' = NoResp
    /\ sent' = 0
    /\ UNCHANGED <<now, projects, groups, namespaces, issued, tickets, tick, nreq>>

\* notify_ticket(ticket, 1) loads the project again: the id of the group it
\* goes on to look up, <<>> when it returns {} at once
receive_webhook_notify_project(s) ==
    /\ reqs[s].kind = "webhook" /\ reqs[s].pc = "named"
    /\ LET target == notify_ticket_project(reqs[s].tk[1], 1) IN
          reqs' = [reqs EXCEPT ![s].pc = IF target = <<>> THEN "notified" ELSE "project",
                               ![s].target = target,
                               ![s].results = IF target = <<>> THEN "no_channel" ELSE "none"]
    /\ resp' = NoResp
    /\ sent' = 0
    /\ UNCHANGED <<now, projects, groups, namespaces, issued, tickets, tick, nreq>>

\* notify_ticket(ticket, 1) looks the group up; it returns {} when the
\* group is gone
receive_webhook_notify_group(s) ==
    /\ reqs[s].kind = "webhook" /\ reqs[s].pc = "project"
    /\ IF GroupGet(reqs[s].target[1]) = <<>>
       THEN reqs' = [reqs EXCEPT ![s].pc = "notified", ![s].results = "no_channel"]
       ELSE reqs' = [reqs EXCEPT ![s].pc = "group"]
    /\ resp' = NoResp
    /\ sent' = 0
    /\ UNCHANGED <<now, projects, groups, namespaces, issued, tickets, tick, nreq>>

\* notify_ticket(ticket, 1) dispatches the notification to the group it
\* found (the template lookup, the contacts and the transports of
\* send_to_group); nothing in the handler catches an exception of
\* send_to_group, and the request is answered 500
receive_webhook_notify(s, outcome) ==
    /\ reqs[s].kind = "webhook" /\ reqs[s].pc = "group"
    /\ IF outcome = "raises"
       THEN /\ resp' = Respond("webhook", 0, 500, "error")
            /\ reqs' = [reqs EXCEPT ![s] = NoReq]
            /\ sent' = 0
       ELSE /\ resp' = NoResp
            /\ reqs' = [reqs EXCEPT ![s].pc = "notified", ![s].results = outcome]
            /\ sent' = 1
    /\ UNCHANGED <<now, projects, groups, namespaces, issued, tickets, tick, nreq>>

\* the NOTIFIED event is appended, the notification stamped and counted, and
\* the ticket saved
receive_webhook_notify_save(s) ==
    /\ reqs[s].kind = "webhook" /\ reqs[s].pc = "notified"
    /\ tickets' = TicketSave(reqs[s].tid,
                             Notified(reqs[s].tk[1], reqs[s].group_name,
                                      AnySuccess(reqs[s].results)))
    /\ resp' = Respond("webhook", reqs[s].tid, 200, "ok")
    /\ reqs' = [reqs EXCEPT ![s] = NoReq]
    /\ sent' = 0
    /\ UNCHANGED <<now, projects, groups, namespaces, issued, tick, nreq>>

(***************************************************************************)
(* Escalation scheduler (services/escalation.py)                           *)
(*                                                                         *)
(* The tick is suspended only in store operations and in the dispatch; an  *)
(* action runs the loop code up to and including one of them: the project  *)
(* query, the ticket query, a group lookup, a dispatch (the template       *)
(* lookup, the contacts and the transports of send_to_group), a save.      *)
(***************************************************************************)
\* a project query that does not look at escalation_config.enabled
ProjectFindActive ==
    LET F[i \in 0..issued.projects] ==
            IF i = 0 THEN <<>>
            ELSE IF i \in DOMAIN projects /\ projects[i].is_active
                 THEN Append(F[i - 1], projects[i])
                 ELSE F[i - 1]
    IN  F[issued.projects]

\* Project.find(escalation_config.enabled == True, is_active == True)
ProjectFindEscalating ==
    LET F[i \in 0..issued.projects] ==
            IF i = 0 THEN <<>>
            ELSE IF i \in DOMAIN projects /\ projects[i].enabled /\ projects[i].is_active
                 THEN Append(F[i - 1], projects[i])
                 ELSE F[i - 1]
    IN  F[issued.projects]

\* now - (last_notified_at or created_at)
time_since_notification(t, tnow) ==
    IF t.last_notified_at # NULL THEN tnow - t.last_notified_at ELSE tnow - t.created_at

\* a _process_ticket whose first repeat check does not look at the timeout
process_ticket_repeating_past_timeout(t, project, max_level, tnow, gs) ==
    LET ids == project.notification_group_ids
        escalation_timeout == project.timeout_minutes
    IN
    IF ~can_escalate(t) THEN "skip"
    ELSE IF t.escalation_level - 1 >= Len(ids) THEN "skip"
    ELSE LET current_group == GroupIn(gs, ids[t.escalation_level]) IN
    IF current_group = <<>> THEN "skip"
    ELSE LET since == time_since_notification(t, tnow)
             repeat_interval == current_group[1].repeat_interval
         IN
    IF Truthy(repeat_interval) /\ since >= repeat_interval
        THEN "repeat"
    ELSE IF since < escalation_timeout THEN "none"
    ELSE IF t.escalation_level >= max_level
        THEN IF Truthy(repeat_interval)
             THEN IF since >= repeat_interval THEN "repeat" ELSE "none"
             ELSE IF ~HasEvent(t, EV_MAX_LEVEL_REACHED) THEN "max_level" ELSE "none"
    ELSE IF t.escalation_level + 1 - 1 >= Len(ids) THEN "none"
    ELSE IF GroupIn(gs, ids[t.escalation_level + 1]) = <<>> THEN "none"
    ELSE "escalate"

\* the branch _process_ticket takes on a loaded ticket, gs being the groups
\* as its lookups find them
process_ticket(t, project, max_level, tnow, gs) ==
    LET ids == project.notification_group_ids
        escalation_timeout == project.timeout_minutes
    IN
    IF ~can_escalate(t) THEN "skip"
    ELSE IF t.escalation_level - 1 >= Len(ids) THEN "skip"
    ELSE LET current_group == GroupIn(gs, ids[t.escalation_level]) IN
    IF current_group = <<>> THEN "skip"
    ELSE LET since == time_since_notification(t, tnow)
             repeat_interval == current_group[1].repeat_interval
         IN
    IF Truthy(repeat_interval) /\ since < escalation_timeout /\ since >= repeat_interval
        THEN "repeat"
    ELSE IF since < escalation_timeout THEN "none"
    ELSE IF t.escalation_level >= max_level
        THEN IF Truthy(repeat_interval)
             THEN IF since >= repeat_interval THEN "repeat" ELSE "none"
             ELSE IF ~HasEvent(t, EV_MAX_LEVEL_REACHED) THEN "max_level" ELSE "none"
    ELSE IF t.escalation_level + 1 - 1 >= Len(ids) THEN "none"
    ELSE IF GroupIn(gs, ids[t.escalation_level + 1]) = <<>> THEN "none"
    ELSE "escalate"

\* the groups collection with every group but the given one taken as found
NextFound(gid) ==
    [g \in DOMAIN groups |-> IF g = gid THEN groups[g] ELSE [groups[g] EXCEPT !.exists = TRUE]]

\* _process_ticket returns before its first await: the ticket cannot
\* escalate, or the project has no group at its level
ReturnsAtOnce(e) ==
    \/ ~can_escalate(e.doc)
    \/ e.doc.escalation_level - 1 >= Len(tick.project[1].notification_group_ids)

\* the branch _process_ticket takes on the loaded ticket once it has looked
\* up the current group; "escalate" stands for going on to the lookup of the
\* next group
Decision(e) ==
    IF ReturnsAtOnce(e) THEN "skip"
    ELSE process_ticket(e.doc, tick.project[1], tick.max_level, tick.now,
                        NextFound(tick.project[1].notification_group_ids[e.doc.escalation_level]))

\* for project in projects: the silenced projects at the head of the list are skipped
RECURSIVE SkipSilenced(_)
SkipSilenced(ps) ==
    IF ps = <<>> THEN <<>>
    ELSE IF is_silenced(Head(ps)) THEN SkipSilenced(Tail(ps))
    ELSE ps

\* for ticket in tickets: the tickets _process_ticket returns on before its
\* first await
RECURSIVE SkipUntouched(_)
SkipUntouched(ts) ==
    IF ts = <<>> THEN <<>>
    ELSE IF ReturnsAtOnce(Head(ts)) THEN SkipUntouched(Tail(ts))
    ELSE ts

\* the tickets of the current project still to look a group up for
Todo == IF tick.pc = "tickets" THEN SkipUntouched(tick.tickets) ELSE <<>>

\* the tick is in the loop over the projects
AtProjects == tick.pc = "projects" \/ (tick.pc = "tickets" /\ Todo = <<>>)

\* the job fires: the projects with escalation enabled are loaded
check_and_escalate_tickets ==
    /\ proc # "stopped"
    /\ tick.pc = "idle"
    /\ tick' = [IdleTick EXCEPT !.pc = "projects", !.projects = ProjectFindEscalating]
    /\ resp' = NoResp
    /\ sent' = 0
    /\ UNCHANGED <<now, projects, groups, namespaces, issued, tickets, reqs, nreq>>

\* _check_project_tickets on the next project that is not silenced, up to the
\* load of its open tickets
check_project_tickets ==
    /\ AtProjects
    /\ SkipSilenced(tick.projects) # <<>>
    /\ LET ps == SkipSilenced(tick.projects)
           project == Head(ps)
       IN tick' = [tick EXCEPT
              !.pc = "tickets",
              !.projects = Tail(ps),
              !.project = <<project>>,
              !.now = now,
              !.tickets = TicketFind(project.id, {PENDING, ESCALATED}),
              !.max_level = Len(project.notification_group_ids)]
    /\ resp' = NoResp
    /\ sent' = 0
    /\ UNCHANGED <<now, projects, groups, namespaces, issued, tickets, reqs, nreq>>

\* no project is left: the tick ends
check_and_escalate_tickets_done ==
    /\ AtProjects
    /\ SkipSilenced(tick.projects) = <<>>
    /\ tick' = IdleTick
    /\ resp' = NoResp
    /\ sent' = 0
    /\ UNCHANGED <<now, projects, groups, namespaces, issued, tickets, reqs, nreq>>

\* the current group is looked up and _process_ticket returns: the group is
\* gone, or nothing is due
process_ticket_no_action ==
    /\ Todo # <<>>
    /\ Decision(Head(Todo)) \in {"skip", "none"}
    /\ tick' = [tick EXCEPT !.tickets = Tail(Todo)]
    /\ resp' = NoResp
    /\ sent' = 0
    /\ UNCHANGED <<now, projects, groups, namespaces, issued, tickets, reqs, nreq>>

\* the current group is looked up: the ticket is at the last level, the
\* group has no repeat and the loaded ticket no MAX_LEVEL_REACHED event
process_ticket_max_level ==
    /\ Todo # <<>>
    /\ LET e == Head(Todo)
           group == GroupGet(tick.project[1].notification_group_ids[e.doc.escalation_level])
       IN /\ Decision(e) = "max_level"
          /\ tick' = [tick EXCEPT !.pc = "max_level_save", !.tickets = Tail(Todo),
                                  !.cur = <<e>>, !.group_name = group[1].name]
    /\ resp' = NoResp
    /\ sent' = 0
    /\ UNCHANGED <<now, projects, groups, namespaces, issued, tickets, reqs, nreq>>

\* the ticket document _process_ticket saves at the last level
MaxLevelRecorded(t, group_name) ==
    [add_event(t, EV_MAX_LEVEL_REACHED, t.escalation_level, group_name, SuccessNone)
     EXCEPT !.updated_at = now]

\* the MAX_LEVEL_REACHED event is appended and the ticket saved
process_ticket_max_level_save ==
    /\ tick.pc = "max_level_save"
    /\ tickets' = TicketSave(tick.cur[1].id,
                             MaxLevelRecorded(tick.cur[1].doc, tick.group_name))
    /\ tick' = [tick EXCEPT !.pc = "tickets", !.cur = <<>>, !.group_name = None]
    /\ resp' = NoResp
    /\ sent' = 0
    /\ UNCHANGED <<now, projects, groups, namespaces, issued, reqs, nreq>>

\* the current group is looked up; the ticket has timed out below the last
\* level, and _process_ticket goes on to the lookup of the next group
process_ticket_next_level ==
    /\ Todo # <<>>
    /\ Decision(Head(Todo)) = "escalate"
    /\ tick' = [tick EXCEPT !.pc = "next_group", !.tickets = Tail(Todo),
                            !.cur = <<Head(Todo)>>]
    /\ resp' = NoResp
    /\ sent' = 0
    /\ UNCHANGED <<now, projects, groups, namespaces, issued, tickets, reqs, nreq>>

\* the current group is looked up: a repeat is due, and _process_ticket goes
\* on to _repeat_notification with the group it found
process_ticket_repeat ==
    /\ Todo # <<>>
    /\ LET e == Head(Todo)
           group == GroupGet(tick.project[1].notification_group_ids[e.doc.escalation_level])
       IN /\ Decision(e) = "repeat"
          /\ tick' = [tick EXCEPT !.pc = "repeat_send", !.tickets = Tail(Todo),
                                  !.cur = <<e>>, !.group_name = group[1].name]
    /\ resp' = NoResp
    /\ sent' = 0
    /\ UNCHANGED <<now, projects, groups, namespaces, issued, tickets, reqs, nreq>>

\* _repeat_notification up to the return of the dispatch to the group
\* _process_ticket found
repeat_notification(outcome) ==
    /\ tick.pc = "repeat_send"
    /\ tick' = [tick EXCEPT !.pc = "repeat_save",
                            !.results = outcome, !.success = AnySuccess(outcome)]
    /\ sent' = 1
    /\ resp' = NoResp
    /\ UNCHANGED <<now, projects, groups, namespaces, issued, tickets, reqs, nreq>>

\* a repeat that records its event and does not count it
RepeatedUncounted(t, group_name, success) ==
    [add_event(t, EV_REPEATED, t.escalation_level, group_name, SuccessOf(success))
     EXCEPT !.last_notified_at = now,
            !.updated_at = now]

\* the ticket document _repeat_notification saves
Repeated(t, group_name, success) ==
    [add_event(t, EV_REPEATED, t.escalation_level, group_name, SuccessOf(success))
     EXCEPT !.last_notified_at = now,
            !.notification_count = @ + 1,
            !.updated_at = now]

\* _repeat_notification from the REPEATED event to the save
repeat_notification_save ==
    /\ tick.pc = "repeat_save"
    /\ tickets' = TicketSave(tick.cur[1].id,
                             Repeated(tick.cur[1].doc, tick.group_name, tick.success))
    /\ tick' = [tick EXCEPT !.pc = "tickets", !.cur = <<>>, !.group_name = None,
                            !.results = "none", !.success = FALSE]
    /\ resp' = NoResp
    /\ sent' = 0
    /\ UNCHANGED <<now, projects, groups, namespaces, issued, reqs, nreq>>

\* an _escalate_ticket that raises the level and leaves the status as it is
EscalatedInMemoryLevelOnly(t, new_level) ==
    [t EXCEPT !.escalation_level = new_level, !.updated_at = now]

\* _escalate_ticket before the dispatch: status and level change in memory first
EscalatedInMemory(t, new_level) ==
    [t EXCEPT !.status = ESCALATED, !.escalation_level = new_level, !.updated_at = now]

\* an _escalate_ticket that saves the new status and level before the
\* dispatch to the next group
escalate_ticket_persisting_first(outcome) ==
    /\ tick.pc = "escalate_send"
    /\ LET e == tick.cur[1]
           new_level == e.doc.escalation_level + 1
       IN /\ tick' = [tick EXCEPT
                  !.pc = "escalate_save",
                  !.cur = <<[id |-> e.id, doc |-> EscalatedInMemory(e.doc, new_level)]>>,
                  !.results = outcome, !.success = AnySuccess(outcome)]
          /\ tickets' = TicketSave(e.id, EscalatedInMemory(e.doc, new_level))
    /\ sent' = 1
    /\ resp' = NoResp
    /\ UNCHANGED <<now, projects, groups, namespaces, issued, reqs, nreq>>

\* the next group is looked up: when it is gone _process_ticket returns,
\* otherwise it goes on to _escalate_ticket with the group it found
process_ticket_next_group ==
    /\ tick.pc = "next_group"
    /\ LET e == tick.cur[1]
           group == GroupGet(tick.project[1].notification_group_ids[e.doc.escalation_level + 1])
       IN IF group = <<>>
          THEN tick' = [tick EXCEPT !.pc = "tickets", !.cur = <<>>]
          ELSE tick' = [tick EXCEPT !.pc = "escalate_send", !.group_name = group[1].name]
    /\ resp' = NoResp
    /\ sent' = 0
    /\ UNCHANGED <<now, projects, groups, namespaces, issued, tickets, reqs, nreq>>

\* _escalate_ticket up to the return of the dispatch to the group
\* _process_ticket found: status and level change in memory, then the
\* notification is dispatched
escalate_ticket(outcome) ==
    /\ tick.pc = "escalate_send"
    /\ LET e == tick.cur[1]
           new_level == e.doc.escalation_level + 1
       IN tick' = [tick EXCEPT
              !.pc = "escalate_save",
              !.cur = <<[id |-> e.id, doc |-> EscalatedInMemory(e.doc, new_level)]>>,
              !.results = outcome, !.success = AnySuccess(outcome)]
    /\ sent' = 1
    /\ resp' = NoResp
    /\ UNCHANGED <<now, projects, groups, namespaces, issued, tickets, reqs, nreq>>

\* an _escalate_ticket that counts and stamps the notification only when a
\* channel succeeded
EscalatedCountingSuccess(t, group_name, success) ==
    IF success
    THEN [add_event(t, EV_ESCALATED, t.escalation_level, group_name, SuccessOf(success))
          EXCEPT !.last_notified_at = now,
                 !.notification_count = @ + 1]
    ELSE add_event(t, EV_ESCALATED, t.escalation_level, group_name, SuccessOf(success))

\* the ticket document _escalate_ticket saves
Escalated(t, group_name, success) ==
    [add_event(t, EV_ESCALATED, t.escalation_level, group_name, SuccessOf(success))
     EXCEPT !.last_notified_at = now,
            !.notification_count = @ + 1]

\* _escalate_ticket from the ESCALATED event to the save
escalate_ticket_save ==
    /\ tick.pc = "escalate_save"
    /\ tickets' = TicketSave(tick.cur[1].id,
                             Escalated(tick.cur[1].doc, tick.group_name, tick.success))
    /\ tick' = [tick EXCEPT !.pc = "tickets", !.cur = <<>>, !.group_name = None,
                            !.results = "none", !.success = FALSE]
    /\ resp' = NoResp
    /\ sent' = 0
    /\ UNCHANGED <<now, projects, groups, namespaces, issued, reqs, nreq>>

\* what check_and_escalate_tickets does with an exception raised below it while
\* the k-th loaded ticket is processed: nothing catches it, the job ends
Propagate(k) ==
    [tick EXCEPT !.pc = "idle",
                 !.tickets = SubSeq(@, k + 1, Len(@)),
                 !.cur = <<>>, !.group_name = None, !.results = "none", !.success = FALSE,
                 !.raised = TRUE]

\* an unexpected exception while a ticket is processed (a store read or write,
\* a group or template lookup, the dispatch)
process_ticket_raises ==
    /\ \/ /\ Todo # <<>>
          /\ tick' = Propagate(Len(tick.tickets) - Len(Todo) + 1)
       \/ /\ tick.pc \in {"max_level_save", "next_group", "repeat_send", "repeat_save",
                         "escalate_send", "escalate_save"}
          /\ tick' = Propagate(0)
    /\ resp' = NoResp
    /\ sent' = 0
    /\ UNCHANGED <<now, projects, groups, namespaces, issued, tickets, reqs, nreq>>

(***************************************************************************)
(* Acknowledgement gateway: GET /ack/{ticket_id}?token=... (api/ack.py)    *)
(***************************************************************************)
\* a link acknowledgement that does not record who acknowledged
AcknowledgedAnonymously(t) ==
    add_event([t EXCEPT !.status = ACKNOWLEDGED, !.acknowledged_at = now,
                        !.updated_at = now],
              EV_ACKNOWLEDGED, NULL, None, SuccessNone)

\* the ticket document a link acknowledgement writes
AcknowledgedViaLink(t) ==
    add_event([t EXCEPT !.status = ACKNOWLEDGED, !.acknowledged_at = now,
                        !.acknowledged_by = "link", !.updated_at = now],
              EV_ACKNOWLEDGED, NULL, None, SuccessNone)

\* a gateway that never looks at the status of the loaded ticket
link_ack_early_ignoring_status(tk, token) ==
    IF tk = <<>> THEN "not_found"
    ELSE IF tk[1].ack_token # token THEN "invalid_token"
    ELSE ""

\* a gateway that never compares the token
link_ack_early_ignoring_token(tk, token) ==
    IF tk = <<>> THEN "not_found"
    ELSE IF tk[1].status = ACKNOWLEDGED THEN "already_acknowledged"
    ELSE IF tk[1].status = RESOLVED THEN "already_resolved"
    ELSE ""

\* what the handler answers on the loaded ticket without writing, "" when it
\* goes on to acknowledge
link_ack_early(tk, token) ==
    IF tk = <<>> THEN "not_found"
    ELSE IF tk[1].ack_token # token THEN "invalid_token"
    ELSE IF tk[1].status = ACKNOWLEDGED THEN "already_acknowledged"
    ELSE IF tk[1].status = RESOLVED THEN "already_resolved"
    ELSE ""

\* the HTTP status of the answer
AnswerCode(answer, format) ==
    IF answer = "not_found" THEN 404
    ELSE IF answer = "invalid_token" THEN 403
    ELSE IF format = "json" \/ format = "html" THEN 200
    ELSE 302

\* the request arrives and the ticket is loaded; the token and the status are
\* checked on the loaded document
acknowledge_ticket_via_link(s, ticket_id, token, format) ==
    /\ FreeSlot(s)
    /\ nreq' = nreq + 1
    /\ LET tk == TicketGet(ticket_id)
           answer == link_ack_early(tk, token)
       IN IF answer # ""
          THEN /\ resp' = [Respond("link_ack", ticket_id, AnswerCode(answer, format), answer)
                            EXCEPT !.token = token]
               /\ UNCHANGED reqs
          ELSE /\ reqs' = [reqs EXCEPT ![s] =
                       [NoReq EXCEPT !.kind = "link_ack", !.pc = "loaded",
                                     !.tid = ticket_id, !.tk = tk, !.token = token,
                                     !.format = format]]
               /\ resp' = NoResp
    /\ sent' = 0
    /\ UNCHANGED <<now, projects, groups, namespaces, issued, tickets, tick>>

\* the acknowledgement is written
acknowledge_ticket_via_link_save(s) ==
    /\ reqs[s].kind = "link_ack" /\ reqs[s].pc = "loaded"
    /\ LET t == AcknowledgedViaLink(reqs[s].tk[1]) IN
       /\ tickets' = TicketSave(reqs[s].tid, t)
       /\ reqs' = [reqs EXCEPT ![s].pc = "saved", ![s].tk = <<t>>]
    /\ resp' = NoResp
    /\ sent' = 0
    /\ UNCHANGED <<now, projects, groups, namespaces, issued, tick, nreq>>

\* notify_ticket_acknowledged on the project it loaded: it returns {} before
\* its loop (no project, notify_on_ack off, no groups)
AckBackOver(pr) ==
    \/ pr = <<>>
    \/ ~pr[1].notify_on_ack
    \/ Len(pr[1].notification_group_ids) = 0

\* the last level of the loop over range(1, escalation_level + 1), which is
\* left at the end of the project's group list
AckBackLast(t, project) ==
    IF t.escalation_level <= Len(project.notification_group_ids)
    THEN t.escalation_level
    ELSE Len(project.notification_group_ids)

\* send_to_group for the ack-back notification returns its results or raises
AckBackOutcomes == {"returns", "raises"}

\* the group of the level request s is at, looked up on the project the
\* request loaded
AckBackGroup(s) == GroupGet(reqs[s].pr[1].notification_group_ids[reqs[s].level])

\* the loop of notify_ticket_acknowledged in request s is at its last level
AckBackDone(s) == reqs[s].level >= AckBackLast(reqs[s].tk[1], reqs[s].pr[1])

\* the request at the next turn of the loop
AckBackContinue(s, reached) ==
    [reqs[s] EXCEPT !.pc = "ack_back", !.level = @ + 1, !.reached = @ \/ reached]

\* the positive answer of the gateway
LinkAcknowledged(s) ==
    [Respond("link_ack", reqs[s].tid,
             AnswerCode("acknowledged", reqs[s].format), "acknowledged")
     EXCEPT !.token = reqs[s].token]

\* the ack-back notification loads the project; when it returns before its
\* loop the handler answers at once
acknowledge_ticket_via_link_notify_project(s) ==
    /\ reqs[s].kind = "link_ack" /\ reqs[s].pc = "saved"
    /\ LET pr == ProjectGet(reqs[s].tk[1].project_id) IN
       IF AckBackOver(pr)
       THEN /\ resp' = LinkAcknowledged(s)
            /\ reqs' = [reqs EXCEPT ![s] = NoReq]
       ELSE /\ resp' = NoResp
            /\ reqs' = [reqs EXCEPT ![s].pc = "ack_back", ![s].pr = pr, ![s].level = 1]
    /\ sent' = 0
    /\ UNCHANGED <<now, projects, groups, namespaces, issued, tickets, tick, nreq>>

\* a turn of the loop of the ack-back notification looks the group of the
\* level up; a missing group is skipped, and after the last level the handler
\* answers
acknowledge_ticket_via_link_notify_group(s) ==
    /\ reqs[s].kind = "link_ack" /\ reqs[s].pc = "ack_back"
    /\ IF AckBackGroup(s) # <<>>
       THEN /\ resp' = NoResp
            /\ reqs' = [reqs EXCEPT ![s].pc = "ack_send"]
       ELSE IF AckBackDone(s)
       THEN /\ resp' = LinkAcknowledged(s)
            /\ reqs' = [reqs EXCEPT ![s] = NoReq]
       ELSE /\ resp' = NoResp
            /\ reqs' = [reqs EXCEPT ![s] = AckBackContinue(s, FALSE)]
    /\ sent' = 0
    /\ UNCHANGED <<now, projects, groups, namespaces, issued, tickets, tick, nreq>>

\* a gateway that answers 500 when the ack-back notification raised
acknowledge_ticket_via_link_notify_surfacing(s, outcome) ==
    /\ reqs[s].kind = "link_ack" /\ reqs[s].pc = "ack_send"
    /\ sent' = IF outcome = "returns" THEN 1 ELSE 0
    /\ IF outcome = "raises"
       THEN /\ resp' = Respond("link_ack", reqs[s].tid, 500, "error")
            /\ reqs' = [reqs EXCEPT ![s] = NoReq]
       ELSE IF AckBackDone(s)
       THEN /\ resp' = LinkAcknowledged(s)
            /\ reqs' = [reqs EXCEPT ![s] = NoReq]
       ELSE /\ resp' = NoResp
            /\ reqs' = [reqs EXCEPT ![s] = AckBackContinue(s, TRUE)]
    /\ UNCHANGED <<now, projects, groups, namespaces, issued, tickets, tick, nreq>>

\* the ack-back notification is sent to the group the turn found (best
\* effort: the handler logs an exception of the send); after the last turn,
\* and after an exception, the positive answer
acknowledge_ticket_via_link_notify(s, outcome) ==
    /\ reqs[s].kind = "link_ack" /\ reqs[s].pc = "ack_send"
    /\ sent' = IF outcome = "returns" THEN 1 ELSE 0
    /\ IF outcome = "raises" \/ AckBackDone(s)
       THEN /\ resp' = LinkAcknowledged(s)
            /\ reqs' = [reqs EXCEPT ![s] = NoReq]
       ELSE /\ resp' = NoResp
            /\ reqs' = [reqs EXCEPT ![s] = AckBackContinue(s, TRUE)]
    /\ UNCHANGED <<now, projects, groups, namespaces, issued, tickets, tick, nreq>>

(***************************************************************************)
(* Web UI: POST /tickets/{id}/ack and /tickets/{id}/resolve (web/tickets.py) *)
(***************************************************************************)
\* the ticket document a web acknowledgement writes
AcknowledgedByUser(t, user) ==
    add_event([t EXCEPT !.status = ACKNOWLEDGED, !.acknowledged_at = now,
                        !.acknowledged_by = user, !.updated_at = now],
              EV_ACKNOWLEDGED, NULL, None, SuccessNone)

\* a web acknowledgement that acts on pending tickets only
web_ack_early_pending_only(tk) ==
    IF tk = <<>> THEN "not_found"
    ELSE IF tk[1].status = PENDING THEN ""
    ELSE "redirect"

\* what the handler answers on the loaded ticket without writing, "" when it
\* goes on to acknowledge
web_ack_early(tk) ==
    IF tk = <<>> THEN "not_found"
    ELSE IF tk[1].status = PENDING \/ tk[1].status = ESCALATED THEN ""
    ELSE "redirect"

\* the request arrives and the ticket is loaded
acknowledge_ticket(s, ticket_id, user) ==
    /\ FreeSlot(s)
    /\ nreq' = nreq + 1
    /\ LET tk == TicketGet(ticket_id) IN
       IF web_ack_early(tk) = ""
       THEN /\ reqs' = [reqs EXCEPT ![s] =
                    [NoReq EXCEPT !.kind = "web_ack", !.pc = "loaded",
                                  !.tid = ticket_id, !.tk = tk, !.user = user]]
            /\ resp' = NoResp
       ELSE /\ resp' = Respond("web_ack", ticket_id, 302, "redirect")
            /\ UNCHANGED reqs
    /\ sent' = 0
    /\ UNCHANGED <<now, projects, groups, namespaces, issued, tickets, tick>>

acknowledge_ticket_save(s) ==
    /\ reqs[s].kind = "web_ack" /\ reqs[s].pc = "loaded"
    /\ LET t == AcknowledgedByUser(reqs[s].tk[1], reqs[s].user) IN
       /\ tickets' = TicketSave(reqs[s].tid, t)
       /\ reqs' = [reqs EXCEPT ![s].pc = "saved", ![s].tk = <<t>>]
    /\ resp' = NoResp
    /\ sent' = 0
    /\ UNCHANGED <<now, projects, groups, namespaces, issued, tick, nreq>>

\* the ack-back notification loads the project; when it returns before its
\* loop the handler redirects at once
acknowledge_ticket_notify_project(s) ==
    /\ reqs[s].kind = "web_ack" /\ reqs[s].pc = "saved"
    /\ LET pr == ProjectGet(reqs[s].tk[1].project_id) IN
       IF AckBackOver(pr)
       THEN /\ resp' = Respond("web_ack", reqs[s].tid, 302, "redirect")
            /\ reqs' = [reqs EXCEPT ![s] = NoReq]
       ELSE /\ resp' = NoResp
            /\ reqs' = [reqs EXCEPT ![s].pc = "ack_back", ![s].pr = pr, ![s].level = 1]
    /\ sent' = 0
    /\ UNCHANGED <<now, projects, groups, namespaces, issued, tickets, tick, nreq>>

\* a turn of the loop of the ack-back notification looks the group of the
\* level up; a missing group is skipped, and after the last level the handler
\* redirects
acknowledge_ticket_notify_group(s) ==
    /\ reqs[s].kind = "web_ack" /\ reqs[s].pc = "ack_back"
    /\ IF AckBackGroup(s) # <<>>
       THEN /\ resp' = NoResp
            /\ reqs' = [reqs EXCEPT ![s].pc = "ack_send"]
       ELSE IF AckBackDone(s)
       THEN /\ resp' = Respond("web_ack", reqs[s].tid, 302, "redirect")
            /\ reqs' = [reqs EXCEPT ![s] = NoReq]
       ELSE /\ resp' = NoResp
            /\ reqs' = [reqs EXCEPT ![s] = AckBackContinue(s, FALSE)]
    /\ sent' = 0
    /\ UNCHANGED <<now, projects, groups, namespaces, issued, tickets, tick, nreq>>

\* the ack-back notification is sent to the group the turn found (best
\* effort); after the last turn, and after an exception, the redirect
acknowledge_ticket_notify(s, outcome) ==
    /\ reqs[s].kind = "web_ack" /\ reqs[s].pc = "ack_send"
    /\ sent' = IF outcome = "returns" THEN 1 ELSE 0
    /\ IF outcome = "raises" \/ AckBackDone(s)
       THEN /\ resp' = Respond("web_ack", reqs[s].tid, 302, "redirect")
            /\ reqs' = [reqs EXCEPT ![s] = NoReq]
       ELSE /\ resp' = NoResp
            /\ reqs' = [reqs EXCEPT ![s] = AckBackContinue(s, TRUE)]
    /\ UNCHANGED <<now, projects, groups, namespaces, issued, tickets, tick, nreq>>

\* the request arrives and the ticket is loaded
resolve_ticket(s, ticket_id, user) ==
    /\ FreeSlot(s)
    /\ nreq' = nreq + 1
    /\ LET tk == TicketGet(ticket_id) IN
       IF tk # <<>> /\ tk[1].status # RESOLVED
       THEN /\ reqs' = [reqs EXCEPT ![s] =
                    [NoReq EXCEPT !.kind = "web_resolve", !.pc = "loaded",
                                  !.tid = ticket_id, !.tk = tk, !.user = user]]
            /\ resp' = NoResp
       ELSE /\ resp' = Respond("web_resolve", ticket_id, 302, "redirect")
            /\ UNCHANGED reqs
    /\ sent' = 0
    /\ UNCHANGED <<now, projects, groups, namespaces, issued, tickets, tick>>

resolve_ticket_save(s) ==
    /\ reqs[s].kind = "web_resolve" /\ reqs[s].pc = "loaded"
    /\ tickets' = TicketSave(reqs[s].tid, Resolved(reqs[s].tk[1]))
    /\ resp' = Respond("web_resolve", reqs[s].tid, 302, "redirect")
    /\ reqs' = [reqs EXCEPT ![s] = NoReq]
    /\ sent' = 0
    /\ UNCHANGED <<now, projects, groups, namespaces, issued, tick, nreq>>

(***************************************************************************)
(* Project silence (web/namespaces.py)                                     *)
(***************************************************************************)
\* the documents of the model's projects leave out name, description and
\* template id, which no modelled step reads

\* int(raw) if raw else default: a form field that is absent or empty (NULL)
\* gives the default; a field is a string, so "0" is read as 0
FormInt(raw, default) == IF raw = NULL THEN default ELSE raw

\* the default of the duration field of the silence form
DefaultSilenceMinutes == 30

\* the default of the escalation_timeout field of the project forms
DefaultTimeoutMinutes == 15

\* document.save(): the whole document is written under its id, and inserted
\* when the collection has none of that id
ProjectSave(pid, doc) ==
    [p \in DOMAIN projects \cup {pid} |-> IF p = pid THEN doc ELSE projects[p]]

\* document.delete()
ProjectDelete(pid) == [p \in DOMAIN projects \ {pid} |-> projects[p]]

\* POST .../silence: the project is loaded; without it the handler redirects
silence_project(s, project_id, duration) ==
    /\ FreeSlot(s)
    /\ nreq' = nreq + 1
    /\ IF ProjectGet(project_id) = <<>>
       THEN /\ resp' = Respond("silence", 0, 302, "not_found")
            /\ UNCHANGED reqs
       ELSE /\ reqs' = [reqs EXCEPT ![s] =
                    [NoReq EXCEPT !.kind = "silence", !.pc = "loaded",
                                  !.project_id = project_id,
                                  !.pr = ProjectGet(project_id),
                                  !.form = <<duration>>]]
            /\ resp' = NoResp
    /\ sent' = 0
    /\ UNCHANGED <<now, projects, groups, namespaces, issued, tickets, tick>>

\* the form is read, silenced_until set on the loaded document and the
\* document saved
silence_project_save(s) ==
    /\ reqs[s].kind = "silence" /\ reqs[s].pc = "loaded"
    /\ projects' = ProjectSave(reqs[s].project_id,
            [reqs[s].pr[1] EXCEPT
                !.silenced_until = now + FormInt(reqs[s].form[1], DefaultSilenceMinutes)])
    /\ resp' = Respond("silence", 0, 302, "redirect")
    /\ reqs' = [reqs EXCEPT ![s] = NoReq]
    /\ sent' = 0
    /\ UNCHANGED <<now, groups, namespaces, issued, tickets, tick, nreq>>

\* POST .../unsilence: the project is loaded; without it the handler redirects
unsilence_project(s, project_id) ==
    /\ FreeSlot(s)
    /\ nreq' = nreq + 1
    /\ IF ProjectGet(project_id) = <<>>
       THEN /\ resp' = Respond("unsilence", 0, 302, "not_found")
            /\ UNCHANGED reqs
       ELSE /\ reqs' = [reqs EXCEPT ![s] =
                    [NoReq EXCEPT !.kind = "unsilence", !.pc = "loaded",
                                  !.project_id = project_id,
                                  !.pr = ProjectGet(project_id)]]
            /\ resp' = NoResp
    /\ sent' = 0
    /\ UNCHANGED <<now, projects, groups, namespaces, issued, tickets, tick>>

\* silenced_until is cleared on the loaded document and the document saved
unsilence_project_save(s) ==
    /\ reqs[s].kind = "unsilence" /\ reqs[s].pc = "loaded"
    /\ projects' = ProjectSave(reqs[s].project_id,
                               [reqs[s].pr[1] EXCEPT !.silenced_until = NULL])
    /\ resp' = Respond("unsilence", 0, 302, "redirect")
    /\ reqs' = [reqs EXCEPT ![s] = NoReq]
    /\ sent' = 0
    /\ UNCHANGED <<now, groups, namespaces, issued, tickets, tick, nreq>>

(***************************************************************************)
(* Shutdown: lifespan calls stop_scheduler(), then close_db() (main.py)    *)
(***************************************************************************)
\* stop_scheduler: a plain function that, when _scheduler is set (the process
\* has run start_scheduler and not yet stop_scheduler, so also the process
\* started after a crash), calls _scheduler.shutdown(wait=False) and returns;
\* a tick suspended at one of its awaits stays where it is
stop_scheduler ==
    /\ proc # "stopped"
    /\ proc' = "stopped"
    /\ resp' = NoResp
    /\ sent' = 0
    /\ UNCHANGED <<now, projects, groups, namespaces, issued, tickets, reqs, tick, nreq, ticked, call>>

\* after the shutdown the tick in flight either runs on (the scheduler
\* actions) or is cancelled at the await it is suspended at
check_and_escalate_tickets_cancelled ==
    /\ proc = "stopped"
    /\ tick.pc # "idle"
    /\ tick' = IdleTick
    /\ resp' = NoResp
    /\ sent' = 0
    /\ UNCHANGED <<now, projects, groups, namespaces, issued, tickets, reqs, nreq>>

(***************************************************************************)
(* Crash: the process dies between the dispatch and ticket.save of         *)
(* _escalate_ticket and is started again (lifespan calls start_scheduler)  *)
(***************************************************************************)
crash ==
    /\ proc = "up"
    /\ tick.pc = "escalate_save"
    /\ proc' = "restarted"
    /\ tick' = IdleTick
    /\ reqs' = [s \in Slots |-> NoReq]
    /\ resp' = NoResp
    /\ sent' = 0
    /\ UNCHANGED <<now, projects, groups, namespaces, issued, tickets, nreq, ticked, call>>

(***************************************************************************)
(* Project edit: POST /namespaces/{id}/projects/{id}/edit                  *)
(***************************************************************************)
\* the group lists the edit form is submitted with
GroupLists == {<<>>, <<1>>, <<1, 2>>}

\* the fields of the project forms: the checkboxes, the timeout (NULL: absent
\* or empty) and the groups ticked
ProjectForm(lists, timeouts) ==
    [notification_group_ids : lists, is_active : BOOLEAN, notify_on_ack : BOOLEAN,
     enabled : BOOLEAN, timeout_minutes : timeouts]

\* the form that changes the list of groups of a project and nothing else
GroupsForm(pid, notification_group_ids) ==
    IF pid \in DOMAIN projects
    THEN [notification_group_ids |-> notification_group_ids,
          is_active |-> projects[pid].is_active,
          notify_on_ack |-> projects[pid].notify_on_ack,
          enabled |-> projects[pid].enabled,
          timeout_minutes |-> projects[pid].timeout_minutes]
    ELSE [notification_group_ids |-> notification_group_ids, is_active |-> TRUE,
          notify_on_ack |-> TRUE, enabled |-> TRUE, timeout_minutes |-> NULL]

\* POST .../projects/{id}/edit: the namespace is looked up
update_project(s, namespace_id, project_id, form) ==
    /\ FreeSlot(s)
    /\ nreq' = nreq + 1
    /\ reqs' = [reqs EXCEPT ![s] =
            [NoReq EXCEPT !.kind = "edit", !.pc = "namespace",
                          !.namespace = NamespaceGet(namespace_id),
                          !.project_id = project_id, !.form = <<form>>]]
    /\ resp' = NoResp
    /\ sent' = 0
    /\ UNCHANGED <<now, projects, groups, namespaces, issued, tickets, tick>>

\* the project is loaded; without the namespace or the project the handler
\* redirects
update_project_get(s) ==
    /\ reqs[s].kind = "edit" /\ reqs[s].pc = "namespace"
    /\ IF reqs[s].namespace = <<>> \/ ProjectGet(reqs[s].project_id) = <<>>
       THEN /\ resp' = Respond("edit", 0, 302, "not_found")
            /\ reqs' = [reqs EXCEPT ![s] = NoReq]
       ELSE /\ reqs' = [reqs EXCEPT ![s].pc = "loaded",
                                    ![s].pr = ProjectGet(reqs[s].project_id)]
            /\ resp' = NoResp
    /\ sent' = 0
    /\ UNCHANGED <<now, projects, groups, namespaces, issued, tickets, tick, nreq>>

\* the form is read, its fields are set on the loaded document and the
\* document is saved
update_project_save(s) ==
    /\ reqs[s].kind = "edit" /\ reqs[s].pc = "loaded"
    /\ LET form == reqs[s].form[1] IN
       projects' = ProjectSave(reqs[s].project_id,
            [reqs[s].pr[1] EXCEPT
                !.notification_group_ids = form.notification_group_ids,
                !.is_active = form.is_active,
                !.notify_on_ack = form.notify_on_ack,
                !.enabled = form.enabled,
                !.timeout_minutes = FormInt(form.timeout_minutes, DefaultTimeoutMinutes)])
    /\ resp' = Respond("edit", 0, 302, "redirect")
    /\ reqs' = [reqs EXCEPT ![s] = NoReq]
    /\ sent' = 0
    /\ UNCHANGED <<now, groups, namespaces, issued, tickets, tick, nreq>>

\* POST .../projects/{id}/test: the namespace is looked up
send_test_message(s, namespace_id, project_id) ==
    /\ FreeSlot(s)
    /\ nreq' = nreq + 1
    /\ reqs' = [reqs EXCEPT ![s] =
            [NoReq EXCEPT !.kind = "test", !.pc = "namespace",
                          !.namespace = NamespaceGet(namespace_id),
                          !.project_id = project_id]]
    /\ resp' = NoResp
    /\ sent' = 0
    /\ UNCHANGED <<now, projects, groups, namespaces, issued, tickets, tick>>

\* the project is loaded; without the namespace or the project the handler
\* redirects
send_test_message_project(s) ==
    /\ reqs[s].kind = "test" /\ reqs[s].pc = "namespace"
    /\ IF reqs[s].namespace = <<>> \/ ProjectGet(reqs[s].project_id) = <<>>
       THEN /\ resp' = Respond("test", 0, 302, "not_found")
            /\ reqs' = [reqs EXCEPT ![s] = NoReq]
       ELSE /\ reqs' = [reqs EXCEPT ![s].pc = "loaded",
                                    ![s].pr = ProjectGet(reqs[s].project_id)]
            /\ resp' = NoResp
    /\ sent' = 0
    /\ UNCHANGED <<now, projects, groups, namespaces, issued, tickets, tick, nreq>>

\* the form is read; a project without groups goes on to the page with a
\* failed test, otherwise the first group is looked up, and a missing group
\* goes on to the page with a failed test
send_test_message_group(s) ==
    /\ reqs[s].kind = "test" /\ reqs[s].pc = "loaded"
    /\ LET ids == reqs[s].pr[1].notification_group_ids IN
       IF Len(ids) = 0
       THEN reqs' = [reqs EXCEPT ![s].pc = "render", ![s].status = "no_groups"]
       ELSE IF GroupGet(ids[1]) = <<>>
       THEN reqs' = [reqs EXCEPT ![s].pc = "render", ![s].status = "no_group"]
       ELSE reqs' = [reqs EXCEPT ![s].pc = "group", ![s].target = <<ids[1]>>,
                                 ![s].group_name = GroupGet(ids[1])[1].name]
    /\ resp' = NoResp
    /\ sent' = 0
    /\ UNCHANGED <<now, projects, groups, namespaces, issued, tickets, tick, nreq>>

\* the test of the page: success when some channel succeeded
TestResult(outcome) == IF AnySuccess(outcome) THEN "test_sent" ELSE "test_failed"

\* a ticket that is not stored is sent to the group that was found; the
\* handler catches an exception of send_to_group and goes on to the page
\* with the result of the test
send_test_message_send(s, outcome) ==
    /\ reqs[s].kind = "test" /\ reqs[s].pc = "group"
    /\ sent' = IF outcome = "raises" THEN 0 ELSE 1
    /\ reqs' = [reqs EXCEPT ![s].pc = "render", ![s].status = TestResult(outcome)]
    /\ resp' = NoResp
    /\ UNCHANGED <<now, projects, groups, namespaces, issued, tickets, tick, nreq>>

\* _render_project_detail_with_test_result: the next group of the loaded
\* project is looked up for the page
render_project_detail_with_test_result_group(s) ==
    /\ reqs[s].kind = "test" /\ reqs[s].pc = "render"
    /\ reqs[s].level < Len(reqs[s].pr[1].notification_group_ids)
    /\ reqs' = [reqs EXCEPT ![s].level = @ + 1]
    /\ resp' = NoResp
    /\ sent' = 0
    /\ UNCHANGED <<now, projects, groups, namespaces, issued, tickets, tick, nreq>>

\* _render_project_detail_with_test_result: the contacts are loaded and the
\* page is answered with the result of the test
render_project_detail_with_test_result(s) ==
    /\ reqs[s].kind = "test" /\ reqs[s].pc = "render"
    /\ reqs[s].level = Len(reqs[s].pr[1].notification_group_ids)
    /\ resp' = Respond("test", 0, 200, reqs[s].status)
    /\ reqs' = [reqs EXCEPT ![s] = NoReq]
    /\ sent' = 0
    /\ UNCHANGED <<now, projects, groups, namespaces, issued, tickets, tick, nreq>>

\* POST .../projects/new: the namespace is looked up; without it the handler
\* redirects
create_project(s, namespace_id, form) ==
    /\ FreeSlot(s)
    /\ nreq' = nreq + 1
    /\ IF NamespaceGet(namespace_id) = <<>>
       THEN /\ resp' = Respond("new_project", 0, 302, "not_found")
            /\ UNCHANGED reqs
       ELSE /\ reqs' = [reqs EXCEPT ![s] =
                    [NoReq EXCEPT !.kind = "new_project", !.pc = "namespace",
                                  !.namespace = NamespaceGet(namespace_id),
                                  !.form = <<form>>]]
            /\ resp' = NoResp
    /\ sent' = 0
    /\ UNCHANGED <<now, projects, groups, namespaces, issued, tickets, tick>>

\* the form is read and the new project inserted under a fresh id: active
\* and not silenced, whatever the form says of is_active
create_project_insert(s) ==
    /\ reqs[s].kind = "new_project" /\ reqs[s].pc = "namespace"
    /\ LET form == reqs[s].form[1]
           id == issued.projects + 1
       IN /\ projects' = ProjectSave(id,
                 [id |-> id,
                  namespace_id |-> reqs[s].namespace[1],
                  is_active |-> TRUE,
                  enabled |-> form.enabled,
                  timeout_minutes |-> FormInt(form.timeout_minutes, DefaultTimeoutMinutes),
                  notification_group_ids |-> form.notification_group_ids,
                  notify_on_ack |-> form.notify_on_ack,
                  silenced_until |-> NULL])
          /\ issued' = [issued EXCEPT !.projects = id]
    /\ resp' = Respond("new_project", 0, 302, "redirect")
    /\ reqs' = [reqs EXCEPT ![s] = NoReq]
    /\ sent' = 0
    /\ UNCHANGED <<now, groups, namespaces, tickets, tick, nreq>>

\* POST .../projects/{id}/delete: the project is loaded
delete_project(s, project_id) ==
    /\ FreeSlot(s)
    /\ nreq' = nreq + 1
    /\ IF ProjectGet(project_id) = <<>>
       THEN /\ resp' = Respond("delete_project", 0, 302, "redirect")
            /\ UNCHANGED reqs
       ELSE /\ reqs' = [reqs EXCEPT ![s] =
                    [NoReq EXCEPT !.kind = "delete_project", !.pc = "loaded",
                                  !.project_id = project_id]]
            /\ resp' = NoResp
    /\ sent' = 0
    /\ UNCHANGED <<now, projects, groups, namespaces, issued, tickets, tick>>

\* the loaded project is deleted
delete_project_delete(s) ==
    /\ reqs[s].kind = "delete_project" /\ reqs[s].pc = "loaded"
    /\ projects' = ProjectDelete(reqs[s].project_id)
    /\ resp' = Respond("delete_project", 0, 302, "redirect")
    /\ reqs' = [reqs EXCEPT ![s] = NoReq]
    /\ sent' = 0
    /\ UNCHANGED <<now, groups, namespaces, issued, tickets, tick, nreq>>

(***************************************************************************)
(* Notification groups (web/notification_groups.py)                        *)
(***************************************************************************)
\* the documents of the model's groups leave out description and
\* channel_configs: what a dispatch to a group reports is an input

\* the names a group form is submitted with
GroupNames == {"g1", "g2", "gX"}

\* the repeat_interval field of a group form: NULL (empty), 0 or minutes
RepeatFields == {NULL, 0, 1}

\* int(raw) if raw else None, and 0 gives None as well
FormRepeat(raw) == IF raw = NULL \/ raw = 0 THEN NULL ELSE raw

\* NotificationGroup.find_one(NotificationGroup.name == name): the ids found
GroupFindName(name) == {g \in DOMAIN groups : groups[g].exists /\ groups[g].name = name}

\* document.save() and document.insert()
GroupSave(gid, doc) ==
    [g \in DOMAIN groups \cup {gid} |-> IF g = gid THEN doc ELSE groups[g]]

\* the unique index on name rejects a write that would give two groups one
\* name
NameTaken(gid, name) == GroupFindName(name) \ {gid} # {}

\* POST /notification-groups/{id}/edit: the group is loaded; without it the
\* handler redirects
update_group(s, group_id, name, repeat_interval) ==
    /\ FreeSlot(s)
    /\ nreq' = nreq + 1
    /\ IF GroupGet(group_id) = <<>>
       THEN /\ resp' = Respond("edit_group", 0, 302, "not_found")
            /\ UNCHANGED reqs
       ELSE /\ reqs' = [reqs EXCEPT ![s] =
                    [NoReq EXCEPT !.kind = "edit_group", !.pc = "loaded",
                                  !.target = <<group_id>>,
                                  !.form = <<[name |-> name,
                                              repeat_interval |-> repeat_interval]>>]]
            /\ resp' = NoResp
    /\ sent' = 0
    /\ UNCHANGED <<now, projects, groups, namespaces, issued, tickets, tick>>

\* the form is read and the name looked up: a name another group has is
\* answered with 400
update_group_find(s) ==
    /\ reqs[s].kind = "edit_group" /\ reqs[s].pc = "loaded"
    /\ IF NameTaken(reqs[s].target[1], reqs[s].form[1].name)
       THEN /\ resp' = Respond("edit_group", 0, 400, "name_exists")
            /\ reqs' = [reqs EXCEPT ![s] = NoReq]
       ELSE /\ reqs' = [reqs EXCEPT ![s].pc = "checked"]
            /\ resp' = NoResp
    /\ sent' = 0
    /\ UNCHANGED <<now, projects, groups, namespaces, issued, tickets, tick, nreq>>

\* the fields of the form are set on the loaded document and the document
\* is saved
update_group_save(s) ==
    /\ reqs[s].kind = "edit_group" /\ reqs[s].pc = "checked"
    /\ LET form == reqs[s].form[1]
           gid == reqs[s].target[1]
       IN IF NameTaken(gid, form.name)
          THEN /\ resp' = Respond("edit_group", 0, 500, "error")
               /\ UNCHANGED groups
          ELSE /\ groups' = GroupSave(gid,
                      [exists |-> TRUE, name |-> form.name,
                       repeat_interval |-> FormRepeat(form.repeat_interval)])
               /\ resp' = Respond("edit_group", 0, 302, "redirect")
    /\ reqs' = [reqs EXCEPT ![s] = NoReq]
    /\ sent' = 0
    /\ UNCHANGED <<now, projects, namespaces, issued, tickets, tick, nreq>>

\* POST /notification-groups/new: the form is read and the name looked up;
\* a name a group has is answered with 400
create_group(s, name, repeat_interval) ==
    /\ FreeSlot(s)
    /\ nreq' = nreq + 1
    /\ IF GroupFindName(name) # {}
       THEN /\ resp' = Respond("new_group", 0, 400, "name_exists")
            /\ UNCHANGED reqs
       ELSE /\ reqs' = [reqs EXCEPT ![s] =
                    [NoReq EXCEPT !.kind = "new_group", !.pc = "checked",
                                  !.form = <<[name |-> name,
                                              repeat_interval |-> repeat_interval]>>]]
            /\ resp' = NoResp
    /\ sent' = 0
    /\ UNCHANGED <<now, projects, groups, namespaces, issued, tickets, tick>>

\* the new group is inserted under a fresh id
create_group_insert(s) ==
    /\ reqs[s].kind = "new_group" /\ reqs[s].pc = "checked"
    /\ LET form == reqs[s].form[1]
           gid == issued.groups + 1
       IN IF GroupFindName(form.name) # {}
          THEN /\ resp' = Respond("new_group", 0, 500, "error")
               /\ UNCHANGED <<groups, issued>>
          ELSE /\ groups' = GroupSave(gid,
                      [exists |-> TRUE, name |-> form.name,
                       repeat_interval |-> FormRepeat(form.repeat_interval)])
               /\ issued' = [issued EXCEPT !.groups = gid]
               /\ resp' = Respond("new_group", 0, 302, "redirect")
    /\ reqs' = [reqs EXCEPT ![s] = NoReq]
    /\ sent' = 0
    /\ UNCHANGED <<now, projects, namespaces, tickets, tick, nreq>>

\* POST /notification-groups/{id}/delete: the group is loaded
delete_group(s, group_id) ==
    /\ FreeSlot(s)
    /\ nreq' = nreq + 1
    /\ IF GroupGet(group_id) = <<>>
       THEN /\ resp' = Respond("delete_group", 0, 302, "redirect")
            /\ UNCHANGED reqs
       ELSE /\ reqs' = [reqs EXCEPT ![s] =
                    [NoReq EXCEPT !.kind = "delete_group", !.pc = "loaded",
                                  !.target = <<group_id>>]]
            /\ resp' = NoResp
    /\ sent' = 0
    /\ UNCHANGED <<now, projects, groups, namespaces, issued, tickets, tick>>

\* the loaded group is deleted
delete_group_delete(s) ==
    /\ reqs[s].kind = "delete_group" /\ reqs[s].pc = "loaded"
    /\ groups' = [groups EXCEPT ![reqs[s].target[1]].exists = FALSE]
    /\ resp' = Respond("delete_group", 0, 302, "redirect")
    /\ reqs' = [reqs EXCEPT ![s] = NoReq]
    /\ sent' = 0
    /\ UNCHANGED <<now, projects, namespaces, issued, tickets, tick, nreq>>

(***************************************************************************)
(* Namespaces (web/namespaces.py)                                          *)
(***************************************************************************)
\* the ids of the namespaces collection in the order they are issued
NamespaceIds == <<"ns1", "ns2", "ns3">>

\* the namespaces whose slug is the given one
NamespaceFindSlug(slug) ==
    {n \in DOMAIN namespaces : namespaces[n].exists /\ namespaces[n].slug = slug}

\* the unique index on slug rejects a write that would give two namespaces
\* one slug
SlugTaken(nid, slug) == NamespaceFindSlug(slug) \ {nid} # {}

\* document.save() and document.insert()
NamespaceSave(nid, doc) ==
    [n \in DOMAIN namespaces \cup {nid} |-> IF n = nid THEN doc ELSE namespaces[n]]

\* POST /namespaces/new: the form is read and the slug looked up; a slug a
\* namespace has is answered with 400
create_namespace(s, slug) ==
    /\ FreeSlot(s)
    /\ nreq' = nreq + 1
    /\ IF NamespaceFindOne(slug) # <<>>
       THEN /\ resp' = Respond("new_namespace", 0, 400, "slug_exists")
            /\ UNCHANGED reqs
       ELSE /\ reqs' = [reqs EXCEPT ![s] =
                    [NoReq EXCEPT !.kind = "new_namespace", !.pc = "checked",
                                  !.form = <<slug>>]]
            /\ resp' = NoResp
    /\ sent' = 0
    /\ UNCHANGED <<now, projects, groups, namespaces, issued, tickets, tick>>

\* the new namespace is inserted under a fresh id; a slug that a namespace
\* has taken since the lookup violates the unique index and is answered with
\* 500
create_namespace_insert(s) ==
    /\ reqs[s].kind = "new_namespace" /\ reqs[s].pc = "checked"
    /\ LET slug == reqs[s].form[1]
       IN IF NamespaceFindOne(slug) # <<>>
          THEN /\ resp' = Respond("new_namespace", 0, 500, "error")
               /\ UNCHANGED <<namespaces, issued>>
          ELSE /\ issued.namespaces < Len(NamespaceIds)
               /\ namespaces' = NamespaceSave(NamespaceIds[issued.namespaces + 1],
                                              [exists |-> TRUE, slug |-> slug])
               /\ issued' = [issued EXCEPT !.namespaces = @ + 1]
               /\ resp' = Respond("new_namespace", 0, 302, "redirect")
    /\ reqs' = [reqs EXCEPT ![s] = NoReq]
    /\ sent' = 0
    /\ UNCHANGED <<now, projects, groups, tickets, tick, nreq>>

\* POST /namespaces/{id}/edit: the namespace is loaded; without it the
\* handler redirects
update_namespace(s, namespace_id, slug) ==
    /\ FreeSlot(s)
    /\ nreq' = nreq + 1
    /\ IF NamespaceGet(namespace_id) = <<>>
       THEN /\ resp' = Respond("edit_namespace", 0, 302, "not_found")
            /\ UNCHANGED reqs
       ELSE /\ reqs' = [reqs EXCEPT ![s] =
                    [NoReq EXCEPT !.kind = "edit_namespace", !.pc = "loaded",
                                  !.namespace = <<namespace_id>>, !.form = <<slug>>]]
            /\ resp' = NoResp
    /\ sent' = 0
    /\ UNCHANGED <<now, projects, groups, namespaces, issued, tickets, tick>>

\* the form is read and the slug looked up: a slug another namespace has is
\* answered with 400
update_namespace_find(s) ==
    /\ reqs[s].kind = "edit_namespace" /\ reqs[s].pc = "loaded"
    /\ IF SlugTaken(reqs[s].namespace[1], reqs[s].form[1])
       THEN /\ resp' = Respond("edit_namespace", 0, 400, "slug_exists")
            /\ reqs' = [reqs EXCEPT ![s] = NoReq]
       ELSE /\ reqs' = [reqs EXCEPT ![s].pc = "checked"]
            /\ resp' = NoResp
    /\ sent' = 0
    /\ UNCHANGED <<now, projects, groups, namespaces, issued, tickets, tick, nreq>>

\* the slug is set on the loaded document and the document is saved
update_namespace_save(s) ==
    /\ reqs[s].kind = "edit_namespace" /\ reqs[s].pc = "checked"
    /\ LET nid == reqs[s].namespace[1]
           slug == reqs[s].form[1]
       IN IF SlugTaken(nid, slug)
          THEN /\ resp' = Respond("edit_namespace", 0, 500, "error")
               /\ UNCHANGED namespaces
          ELSE /\ namespaces' = NamespaceSave(nid, [exists |-> TRUE, slug |-> slug])
               /\ resp' = Respond("edit_namespace", 0, 302, "redirect")
    /\ reqs' = [reqs EXCEPT ![s] = NoReq]
    /\ sent' = 0
    /\ UNCHANGED <<now, projects, groups, issued, tickets, tick, nreq>>

\* POST /namespaces/{id}/delete: the namespace is loaded
delete_namespace(s, namespace_id) ==
    /\ FreeSlot(s)
    /\ nreq' = nreq + 1
    /\ IF NamespaceGet(namespace_id) = <<>>
       THEN /\ resp' = Respond("delete_namespace", 0, 302, "redirect")
            /\ UNCHANGED reqs
       ELSE /\ reqs' = [reqs EXCEPT ![s] =
                    [NoReq EXCEPT !.kind = "delete_namespace", !.pc = "loaded",
                                  !.namespace = <<namespace_id>>]]
            /\ resp' = NoResp
    /\ sent' = 0
    /\ UNCHANGED <<now, projects, groups, namespaces, issued, tickets, tick>>

\* Project.find(Project.namespace_id == id).delete(): the projects of the
\* namespace are deleted
delete_namespace_projects(s) ==
    /\ reqs[s].kind = "delete_namespace" /\ reqs[s].pc = "loaded"
    /\ projects' = [p \in {q \in DOMAIN projects :
                             projects[q].namespace_id # reqs[s].namespace[1]}
                    |-> projects[p]]
    /\ reqs' = [reqs EXCEPT ![s].pc = "projects"]
    /\ resp' = NoResp
    /\ sent' = 0
    /\ UNCHANGED <<now, groups, namespaces, issued, tickets, tick, nreq>>

\* the loaded namespace is deleted
delete_namespace_delete(s) ==
    /\ reqs[s].kind = "delete_namespace" /\ reqs[s].pc = "projects"
    /\ namespaces' = [namespaces EXCEPT ![reqs[s].namespace[1]].exists = FALSE]
    /\ resp' = Respond("delete_namespace", 0, 302, "redirect")
    /\ reqs' = [reqs EXCEPT ![s] = NoReq]
    /\ sent' = 0
    /\ UNCHANGED <<now, projects, groups, issued, tickets, tick, nreq>>

(***************************************************************************)
(* History of an acknowledgement that races with a tick, per ticket:       *)
(*   "acked"        the acknowledgement was saved while the running tick   *)
(*                  held a copy of the ticket it had loaded before         *)
(*   "overwritten"  that tick then saved its copy                          *)
(*   "next_tick"    the following tick is running                          *)
(*   "reread"       the following tick has loaded the ticket again         *)
(*   "settled"      the following tick has run to completion               *)
(* Any other write to the ticket ends the history ("none").                *)
(***************************************************************************)
Holds(job, i) ==
    /\ job.pc # "idle"
    /\ \/ \E k \in 1..Len(job.tickets) : job.tickets[k].id = i
       \/ job.cur # <<>> /\ job.cur[1].id = i

AckSaved(i) ==
    \E s \in Slots :
        /\ reqs[s].kind \in {"link_ack", "web_ack"}
        /\ reqs[s].pc = "loaded" /\ reqs'[s].pc = "saved"
        /\ reqs[s].tid = i

Wrote(i) == i \in DOMAIN tickets /\ tickets'[i] # tickets[i]

RaceStep(i) ==
    LET old == IF i \in DOMAIN race THEN race[i] ELSE "none" IN
    IF AckSaved(i) THEN (IF Holds(tick, i) THEN "acked" ELSE "none")
    ELSE IF Wrote(i) /\ tick' = tick THEN "none"
    ELSE IF old = "acked"
        THEN IF Wrote(i) THEN "overwritten"
             ELSE IF tick'.pc = "idle" THEN "none" ELSE "acked"
    ELSE IF old = "overwritten"
        THEN IF tick.pc = "idle" /\ tick'.pc # "idle" THEN "next_tick" ELSE "overwritten"
    ELSE IF old = "next_tick"
        THEN IF Holds(tick', i) THEN "reread"
             ELSE IF tick'.pc = "idle" THEN "overwritten" ELSE "next_tick"
    ELSE IF old = "reread"
        THEN IF tick'.pc # "idle" THEN "reread"
             ELSE IF tick'.raised THEN "overwritten" ELSE "settled"
    ELSE old

Observe == race' = [i \in DOMAIN tickets' |-> RaceStep(i)]

(***************************************************************************)
(* Specification: every handler interleaved with the scheduler             *)
(***************************************************************************)
WebhookStatuses == {"firing", "resolved"}

\* tickets stored or about to be inserted by a request in flight
Creating ==
    Len(tickets) + Cardinality({s \in Slots : /\ reqs[s].kind = "webhook"
                                              /\ reqs[s].pc = "parsed"
                                              /\ reqs[s].status # "resolved"})

Room(status, max) == status = "resolved" \/ Creating < max

Next ==
    \/ now < MaxTime /\ Advance /\ Observe /\ UNCHANGED <<ticked, proc, call>>
    \/ /\ nreq < MaxRequests
       /\ \E s \in Slots, pid \in Projects, status \in WebhookStatuses, severity \in Severities :
            Room(status, MaxTickets) /\ receive_webhook(s, "ns1", pid, "json", status, severity)
       /\ Observe /\ UNCHANGED <<ticked, proc, call>>
    \/ (\E s \in Slots : receive_webhook_project(s))
       /\ Observe /\ UNCHANGED <<ticked, proc, call>>
    \/ (\E s \in Slots : receive_webhook_find_pending(s)) /\ Observe /\ UNCHANGED <<ticked, proc, call>>
    \/ (\E s \in Slots : receive_webhook_resolve(s)) /\ Observe /\ UNCHANGED <<ticked, proc, call>>
    \/ (\E s \in Slots : receive_webhook_insert(s)) /\ Observe /\ UNCHANGED <<ticked, proc, call>>
    \/ (\E s \in Slots : receive_webhook_first_group(s))
       /\ Observe /\ UNCHANGED <<ticked, proc, call>>
    \/ (\E s \in Slots : receive_webhook_notify_project(s))
       /\ Observe /\ UNCHANGED <<ticked, proc, call>>
    \/ (\E s \in Slots : receive_webhook_notify_group(s))
       /\ Observe /\ UNCHANGED <<ticked, proc, call>>
    \/ (\E s \in Slots, outcome \in SendOutcomes : receive_webhook_notify(s, outcome))
       /\ Observe /\ UNCHANGED <<ticked, proc, call>>
    \/ (\E s \in Slots : receive_webhook_notify_save(s))
       /\ Observe /\ UNCHANGED <<ticked, proc, call>>
    \/ check_and_escalate_tickets /\ Observe /\ UNCHANGED <<ticked, proc, call>>
    \/ check_project_tickets /\ Observe /\ UNCHANGED <<ticked, proc, call>>
    \/ check_and_escalate_tickets_done /\ Observe /\ UNCHANGED <<ticked, proc, call>>
    \/ process_ticket_no_action /\ Observe /\ UNCHANGED <<ticked, proc, call>>
    \/ process_ticket_max_level /\ Observe /\ UNCHANGED <<ticked, proc, call>>
    \/ process_ticket_max_level_save /\ Observe /\ UNCHANGED <<ticked, proc, call>>
    \/ process_ticket_next_level /\ Observe /\ UNCHANGED <<ticked, proc, call>>
    \/ process_ticket_next_group /\ Observe /\ UNCHANGED <<ticked, proc, call>>
    \/ process_ticket_repeat /\ Observe /\ UNCHANGED <<ticked, proc, call>>
    \/ (\E outcome \in DispatchOutcomes \ {"no_channel"} : repeat_notification(outcome))
       /\ Observe /\ UNCHANGED <<ticked, proc, call>>
    \/ repeat_notification_save /\ Observe /\ UNCHANGED <<ticked, proc, call>>
    \/ (\E outcome \in DispatchOutcomes \ {"no_channel"} : escalate_ticket(outcome))
       /\ Observe /\ UNCHANGED <<ticked, proc, call>>
    \/ escalate_ticket_save /\ Observe /\ UNCHANGED <<ticked, proc, call>>
    \/ process_ticket_raises /\ Observe /\ UNCHANGED <<ticked, proc, call>>
    \/ /\ nreq < MaxRequests
       /\ \E s \in Slots, ticket_id \in 1..MaxTickets, token \in RequestTokens,
             format \in Formats :
            acknowledge_ticket_via_link(s, ticket_id, token, format)
       /\ Observe /\ UNCHANGED <<ticked, proc, call>>
    \/ (\E s \in Slots : acknowledge_ticket_via_link_save(s)) /\ Observe /\ UNCHANGED <<ticked, proc, call>>
    \/ (\E s \in Slots : acknowledge_ticket_via_link_notify_project(s))
       /\ Observe /\ UNCHANGED <<ticked, proc, call>>
    \/ (\E s \in Slots : acknowledge_ticket_via_link_notify_group(s))
       /\ Observe /\ UNCHANGED <<ticked, proc, call>>
    \/ (\E s \in Slots, outcome \in AckBackOutcomes : acknowledge_ticket_via_link_notify(s, outcome))
       /\ Observe /\ UNCHANGED <<ticked, proc, call>>
    \/ /\ nreq < MaxRequests
       /\ \E s \in Slots, ticket_id \in 1..MaxTickets, user \in Users :
            acknowledge_ticket(s, ticket_id, user)
       /\ Observe /\ UNCHANGED <<ticked, proc, call>>
    \/ (\E s \in Slots : acknowledge_ticket_save(s)) /\ Observe /\ UNCHANGED <<ticked, proc, call>>
    \/ (\E s \in Slots : acknowledge_ticket_notify_project(s))
       /\ Observe /\ UNCHANGED <<ticked, proc, call>>
    \/ (\E s \in Slots : acknowledge_ticket_notify_group(s))
       /\ Observe /\ UNCHANGED <<ticked, proc, call>>
    \/ (\E s \in Slots, outcome \in AckBackOutcomes : acknowledge_ticket_notify(s, outcome))
       /\ Observe /\ UNCHANGED <<ticked, proc, call>>
    \/ /\ nreq < MaxRequests
       /\ \E s \in Slots, ticket_id \in 1..MaxTickets, user \in Users :
            resolve_ticket(s, ticket_id, user)
       /\ Observe /\ UNCHANGED <<ticked, proc, call>>
    \/ (\E s \in Slots : resolve_ticket_save(s)) /\ Observe /\ UNCHANGED <<ticked, proc, call>>
    \/ /\ nreq < MaxRequests
       /\ \E s \in Slots, project_id \in Projects, duration \in SilenceDurations :
            silence_project(s, project_id, duration)
       /\ Observe /\ UNCHANGED <<ticked, proc, call>>
    \/ (\E s \in Slots : silence_project_save(s)) /\ Observe /\ UNCHANGED <<ticked, proc, call>>
    \/ /\ nreq < MaxRequests
       /\ \E s \in Slots, project_id \in Projects : unsilence_project(s, project_id)
       /\ Observe /\ UNCHANGED <<ticked, proc, call>>
    \/ (\E s \in Slots : unsilence_project_save(s)) /\ Observe /\ UNCHANGED <<ticked, proc, call>>
    \/ /\ nreq < MaxRequests
       /\ \E s \in Slots, project_id \in Projects : send_test_message(s, "ns1", project_id)
       /\ Observe /\ UNCHANGED <<ticked, proc, call>>
    \/ (\E s \in Slots : send_test_message_project(s))
       /\ Observe /\ UNCHANGED <<ticked, proc, call>>
    \/ (\E s \in Slots : send_test_message_group(s))
       /\ Observe /\ UNCHANGED <<ticked, proc, call>>
    \/ (\E s \in Slots, outcome \in SendOutcomes : send_test_message_send(s, outcome))
       /\ Observe /\ UNCHANGED <<ticked, proc, call>>
    \/ (\E s \in Slots : render_project_detail_with_test_result_group(s))
       /\ Observe /\ UNCHANGED <<ticked, proc, call>>
    \/ (\E s \in Slots : render_project_detail_with_test_result(s))
       /\ Observe /\ UNCHANGED <<ticked, proc, call>>

Spec == Init /\ [][Next]_vars

\* a step of a handler of the console next to the history variables
Console(step) == step /\ Observe /\ UNCHANGED <<ticked, proc, call>>

\* no request of the given kind is in flight
NoneInFlight(kind) == \A s \in Slots : reqs[s].kind # kind

(***************************************************************************)
(* Specification: the scheduler and the intake next to the console forms   *)
(* that write the groups and the projects they read                        *)
(***************************************************************************)
NextConsole ==
    \/ now < MaxTime /\ Console(Advance)
    \/ /\ nreq < ConsoleMaxRequests
       /\ \E s \in Slots, pid \in Projects, severity \in Severities :
            /\ Room("firing", MaxTickets)
            /\ Console(receive_webhook(s, "ns1", pid, "json", "firing", severity))
    \/ \E s \in Slots : Console(receive_webhook_project(s))
    \/ \E s \in Slots : Console(receive_webhook_insert(s))
    \/ \E s \in Slots : Console(receive_webhook_first_group(s))
    \/ \E s \in Slots : Console(receive_webhook_notify_project(s))
    \/ \E s \in Slots : Console(receive_webhook_notify_group(s))
    \/ \E s \in Slots, outcome \in DispatchOutcomes :
            Console(receive_webhook_notify(s, outcome))
    \/ \E s \in Slots : Console(receive_webhook_notify_save(s))
    \/ Console(check_and_escalate_tickets)
    \/ Console(check_project_tickets)
    \/ Console(check_and_escalate_tickets_done)
    \/ Console(process_ticket_no_action)
    \/ Console(process_ticket_max_level)
    \/ Console(process_ticket_max_level_save)
    \/ Console(process_ticket_next_level)
    \/ Console(process_ticket_next_group)
    \/ Console(process_ticket_repeat)
    \/ \E outcome \in DispatchOutcomes \ {"no_channel"} :
            Console(repeat_notification(outcome))
    \/ Console(repeat_notification_save)
    \/ \E outcome \in DispatchOutcomes \ {"no_channel"} :
            Console(escalate_ticket(outcome))
    \/ Console(escalate_ticket_save)
    \/ /\ nreq < ConsoleMaxRequests
       /\ \E s \in Slots, group_id \in Groups, name \in GroupNames,
             repeat_interval \in RepeatFields :
            Console(update_group(s, group_id, name, repeat_interval))
    \/ \E s \in Slots : Console(update_group_find(s))
    \/ \E s \in Slots : Console(update_group_save(s))
    \/ /\ nreq < ConsoleMaxRequests
       /\ \E s \in Slots, group_id \in Groups : Console(delete_group(s, group_id))
    \/ \E s \in Slots : Console(delete_group_delete(s))
    \/ /\ nreq < ConsoleMaxRequests
       /\ \E s \in Slots, project_id \in Projects, notification_group_ids \in GroupLists :
            Console(update_project(s, "ns1", project_id,
                                   GroupsForm(project_id, notification_group_ids)))
    \/ \E s \in Slots : Console(update_project_get(s))
    \/ \E s \in Slots : Console(update_project_save(s))
    \/ /\ nreq < ConsoleMaxRequests
       /\ \E s \in Slots, project_id \in Projects : Console(delete_project(s, project_id))
    \/ \E s \in Slots : Console(delete_project_delete(s))

SpecConsole == Init /\ [][NextConsole]_vars

(***************************************************************************)
(* Specification: the intake and the scheduler alone, with more tickets    *)
(***************************************************************************)
NextTick ==
    \/ now < MaxTime /\ Advance /\ Observe /\ UNCHANGED <<ticked, proc, call>>
    \/ /\ nreq < MaxRequests
       /\ \E s \in Slots, pid \in Projects, severity \in TickSeverities :
            Room("firing", TickMaxTickets) /\ receive_webhook(s, "ns1", pid, "json", "firing", severity)
       /\ Observe /\ UNCHANGED <<ticked, proc, call>>
    \/ (\E s \in Slots : receive_webhook_project(s))
       /\ Observe /\ UNCHANGED <<ticked, proc, call>>
    \/ (\E s \in Slots : receive_webhook_insert(s)) /\ Observe /\ UNCHANGED <<ticked, proc, call>>
    \/ (\E s \in Slots : receive_webhook_first_group(s))
       /\ Observe /\ UNCHANGED <<ticked, proc, call>>
    \/ (\E s \in Slots : receive_webhook_notify_project(s))
       /\ Observe /\ UNCHANGED <<ticked, proc, call>>
    \/ (\E s \in Slots : receive_webhook_notify_group(s))
       /\ Observe /\ UNCHANGED <<ticked, proc, call>>
    \/ (\E s \in Slots, outcome \in DispatchOutcomes : receive_webhook_notify(s, outcome))
       /\ Observe /\ UNCHANGED <<ticked, proc, call>>
    \/ (\E s \in Slots : receive_webhook_notify_save(s))
       /\ Observe /\ UNCHANGED <<ticked, proc, call>>
    \/ check_and_escalate_tickets /\ Observe /\ UNCHANGED <<ticked, proc, call>>
    \/ check_project_tickets /\ Observe /\ UNCHANGED <<ticked, proc, call>>
    \/ check_and_escalate_tickets_done /\ Observe /\ UNCHANGED <<ticked, proc, call>>
    \/ process_ticket_no_action /\ Observe /\ UNCHANGED <<ticked, proc, call>>
    \/ process_ticket_max_level /\ Observe /\ UNCHANGED <<ticked, proc, call>>
    \/ process_ticket_max_level_save /\ Observe /\ UNCHANGED <<ticked, proc, call>>
    \/ process_ticket_next_level /\ Observe /\ UNCHANGED <<ticked, proc, call>>
    \/ process_ticket_next_group /\ Observe /\ UNCHANGED <<ticked, proc, call>>
    \/ process_ticket_repeat /\ Observe /\ UNCHANGED <<ticked, proc, call>>
    \/ (\E outcome \in DispatchOutcomes \ {"no_channel"} : repeat_notification(outcome))
       /\ Observe /\ UNCHANGED <<ticked, proc, call>>
    \/ repeat_notification_save /\ Observe /\ UNCHANGED <<ticked, proc, call>>
    \/ (\E outcome \in DispatchOutcomes \ {"no_channel"} : escalate_ticket(outcome))
       /\ Observe /\ UNCHANGED <<ticked, proc, call>>
    \/ escalate_ticket_save /\ Observe /\ UNCHANGED <<ticked, proc, call>>
    \/ process_ticket_raises /\ Observe /\ UNCHANGED <<ticked, proc, call>>

SpecTick == Init /\ [][NextTick]_vars

(***************************************************************************)
(* Specification: the intake and a scheduler whose job runs to completion  *)
(* at least once a minute (the clock moves only after a complete tick)     *)
(***************************************************************************)
InitPeriodic == InitWith(PeriodicTimeouts)

NextPeriodic ==
    \/ /\ now < PeriodicMaxTime
       /\ ticked /\ tick.pc = "idle"
       /\ Advance
       /\ ticked' = FALSE
       /\ Observe /\ UNCHANGED <<proc, call>>
    \/ /\ nreq < MaxRequests
       /\ \E s \in Slots, pid \in Projects, severity \in Severities :
            Room("firing", MaxTickets) /\ receive_webhook(s, "ns1", pid, "json", "firing", severity)
       /\ Observe /\ UNCHANGED <<ticked, proc, call>>
    \/ (\E s \in Slots : receive_webhook_project(s))
       /\ Observe /\ UNCHANGED <<ticked, proc, call>>
    \/ (\E s \in Slots : receive_webhook_insert(s)) /\ Observe /\ UNCHANGED <<ticked, proc, call>>
    \/ (\E s \in Slots : receive_webhook_first_group(s))
       /\ Observe /\ UNCHANGED <<ticked, proc, call>>
    \/ (\E s \in Slots : receive_webhook_notify_project(s))
       /\ Observe /\ UNCHANGED <<ticked, proc, call>>
    \/ (\E s \in Slots : receive_webhook_notify_group(s))
       /\ Observe /\ UNCHANGED <<ticked, proc, call>>
    \/ (\E s \in Slots, outcome \in DispatchOutcomes : receive_webhook_notify(s, outcome))
       /\ Observe /\ UNCHANGED <<ticked, proc, call>>
    \/ (\E s \in Slots : receive_webhook_notify_save(s))
       /\ Observe /\ UNCHANGED <<ticked, proc, call>>
    \/ check_and_escalate_tickets /\ Observe /\ UNCHANGED <<ticked, proc, call>>
    \/ check_project_tickets /\ Observe /\ UNCHANGED <<ticked, proc, call>>
    \/ check_and_escalate_tickets_done /\ Observe /\ ticked' = TRUE /\ UNCHANGED <<proc, call>>
    \/ process_ticket_no_action /\ Observe /\ UNCHANGED <<ticked, proc, call>>
    \/ process_ticket_max_level /\ Observe /\ UNCHANGED <<ticked, proc, call>>
    \/ process_ticket_max_level_save /\ Observe /\ UNCHANGED <<ticked, proc, call>>
    \/ process_ticket_next_level /\ Observe /\ UNCHANGED <<ticked, proc, call>>
    \/ process_ticket_next_group /\ Observe /\ UNCHANGED <<ticked, proc, call>>
    \/ process_ticket_repeat /\ Observe /\ UNCHANGED <<ticked, proc, call>>
    \/ (\E outcome \in DispatchOutcomes \ {"no_channel"} : repeat_notification(outcome))
       /\ Observe /\ UNCHANGED <<ticked, proc, call>>
    \/ repeat_notification_save /\ Observe /\ UNCHANGED <<ticked, proc, call>>
    \/ (\E outcome \in DispatchOutcomes \ {"no_channel"} : escalate_ticket(outcome))
       /\ Observe /\ UNCHANGED <<ticked, proc, call>>
    \/ escalate_ticket_save /\ Observe /\ UNCHANGED <<ticked, proc, call>>

SpecPeriodic == InitPeriodic /\ [][NextPeriodic]_vars

(***************************************************************************)
(* Properties                                                              *)
(***************************************************************************)
\* the time the ticket entered its current level: the timestamp of its first
\* NOTIFIED or ESCALATED event at that level (NULL when there is none)
LevelEntered(t) ==
    LET at == {j \in 1..Len(t.events) :
                  /\ t.events[j].type \in {EV_NOTIFIED, EV_ESCALATED}
                  /\ t.events[j].level = t.escalation_level}
    IN IF at = {} THEN NULL
       ELSE t.events[CHOOSE j \in at : \A m \in at : j <= m].timestamp

\* the repeat interval of the group of the ticket's current level
RepeatOf(t) ==
    groups[projects[t.project_id].notification_group_ids[t.escalation_level]].repeat_interval

\* C1: repeats do not prevent escalation.  A critical, unacknowledged ticket
\* at a level k that is not the last, whose group repeats with R < T, under a
\* scheduler that completes a tick every minute (1 < T - R), is repeated only
\* until the escalation timeout: once more than T minutes have passed since it
\* entered level k it has been escalated to level k + 1, so it is never found
\* still at level k after that.
C1_RepeatsDoNotPreventEscalation ==
    \A i \in TicketIds :
        LET t == tickets[i]
            project == projects[t.project_id]
        IN  ( /\ can_escalate(t)
              /\ t.escalation_level < Len(project.notification_group_ids)
              /\ LevelEntered(t) # NULL
              /\ Truthy(RepeatOf(t))
              /\ RepeatOf(t) < project.timeout_minutes
              /\ 1 < project.timeout_minutes - RepeatOf(t) )
            => now <= LevelEntered(t) + project.timeout_minutes

\* a step in which GET /ack/{i}?token={token} arrives and the ticket is loaded
LinkAckArrives(i, token) ==
    /\ nreq' = nreq + 1
    /\ \/ resp'.kind = "link_ack" /\ resp'.tid = i /\ resp'.token = token
       \/ \E s \in Slots : /\ reqs[s].kind = "none"
                           /\ reqs'[s].kind = "link_ack"
                           /\ reqs'[s].tid = i /\ reqs'[s].token = token

\* C2: acknowledgement idempotence.  A GET /ack call with the right token on
\* a ticket that is already acknowledged or resolved is answered "already ..."
\* (200, or the 302 redirect to the ticket page) and changes nothing: the
\* tickets are as they were, the handler goes no further (no write follows)
\* and no ack-back notification is sent.  So the second of two sequential
\* calls leaves the ticket as the first one left it.
C2_AckIdempotent ==
    [][\A i \in TicketIds :
          ( /\ LinkAckArrives(i, tickets[i].ack_token)
            /\ tickets[i].status \in {ACKNOWLEDGED, RESOLVED} )
          => /\ tickets' = tickets
             /\ reqs' = reqs
             /\ sent' = 0
             /\ resp'.code \in {200, 302}
             /\ resp'.status = IF tickets[i].status = ACKNOWLEDGED
                               THEN "already_acknowledged" ELSE "already_resolved"]_vars

\* a second call has been answered on a ticket a first call acknowledged, and
\* the ticket carries the one ACKNOWLEDGED event of the first call
C2_Witness ==
    /\ resp.kind = "link_ack" /\ resp.status = "already_acknowledged"
    /\ resp.tid \in TicketIds
    /\ tickets[resp.tid].acknowledged_by = "link"
    /\ Cardinality({j \in 1..Len(tickets[resp.tid].events) :
                       tickets[resp.tid].events[j].type = EV_ACKNOWLEDGED}) = 1

\* C3: token binding.  A GET /ack call on an existing ticket with a token
\* that differs from the ticket's ack_token is answered 403 and nothing else
\* happens: no field of any ticket changes, no event is appended, the handler
\* goes no further and no notification is sent.
C3_TokenBinding ==
    [][\A i \in TicketIds : \A token \in RequestTokens :
          ( /\ LinkAckArrives(i, token)
            /\ token # tickets[i].ack_token )
          => /\ resp'.kind = "link_ack" /\ resp'.code = 403
             /\ tickets' = tickets
             /\ reqs' = reqs
             /\ sent' = 0]_vars

\* a call with a wrong token on an open ticket has been rejected
C3_Witness ==
    /\ resp.kind = "link_ack" /\ resp.code = 403
    /\ resp.tid \in TicketIds
    /\ resp.token # tickets[resp.tid].ack_token
    /\ tickets[resp.tid].status \in {PENDING, ESCALATED}

\* C4: an exception raised while the scheduler processes one ticket does not
\* end the tick: the job comes to rest only when every ticket it loaded and
\* every project it found have been gone through, so an idle job has left
\* behind no project it found and no loaded ticket whose current group it
\* had still to look up.
C4_ExceptionDoesNotEndTick ==
    tick.pc = "idle" => SkipUntouched(tick.tickets) = <<>> /\ tick.projects = <<>>

\* C5: convergence after a racing acknowledgement.  When an acknowledgement
\* was saved between a tick's load of the ticket and that tick's save of it,
\* and nothing else wrote the ticket since, then once the following tick has
\* read the ticket again and run to completion the stored ticket has status
\* acknowledged (and so is not matched by the scheduler's pending|escalated
\* filter).
C5_ConvergesAfterRacingAck ==
    \A i \in TicketIds :
        race[i] = "settled" => tickets[i].status = ACKNOWLEDGED

\* C6 as stated: in every stored ticket acknowledged_at and acknowledged_by
\* are set if and only if the status is acknowledged.
C6_AckFieldsIffAcknowledged ==
    \A i \in TicketIds :
        (tickets[i].acknowledged_at # NULL /\ tickets[i].acknowledged_by # None)
            <=> tickets[i].status = ACKNOWLEDGED

\* C6, amended: an acknowledged ticket has acknowledged_at and acknowledged_by
\* set; the two are set or unset together; and when they are set the status
\* is acknowledged or resolved (a resolve keeps the record of who had
\* acknowledged).
C6_AckFieldsCoherent ==
    \A i \in TicketIds :
        /\ tickets[i].status = ACKNOWLEDGED =>
              tickets[i].acknowledged_at # NULL /\ tickets[i].acknowledged_by # None
        /\ tickets[i].acknowledged_at # NULL <=> tickets[i].acknowledged_by # None
        /\ tickets[i].acknowledged_at # NULL =>
              tickets[i].status \in {ACKNOWLEDGED, RESOLVED}

\* a ticket acknowledged through the link and later resolved in the web UI
C6_Witness ==
    \E i \in TicketIds :
        /\ tickets[i].status = RESOLVED
        /\ tickets[i].acknowledged_by = "link"
        /\ tickets[i].acknowledged_at # NULL

\* C7: resolution coherence.  In every stored ticket resolved_at is set if
\* and only if the status is resolved.
C7_ResolvedAtIffResolved ==
    \A i \in TicketIds :
        tickets[i].resolved_at # NULL <=> tickets[i].status = RESOLVED

\* a pending ticket has just been resolved by a resolved event of the intake
C7_Witness ==
    \E i \in TicketIds :
        /\ tickets[i].status = RESOLVED
        /\ tickets[i].resolved_at # NULL
        /\ resp.status = "resolved" /\ resp.kind = "webhook"

\* C8: escalation monotonicity.  No step, in any interleaving of the
\* scheduler with the intake, link-ack, web-ack and resolve handlers, lowers
\* the stored escalation_level of a ticket.
C8_EscalationLevelNeverDecreases ==
    [][\A i \in TicketIds :
          tickets'[i].escalation_level >= tickets[i].escalation_level]_vars

\* C9: monotonic counter.  No step lowers the stored notification_count of a
\* ticket, also when a handler saves a ticket it loaded before a tick
\* incremented the count.
C9_NotificationCountNeverDecreases ==
    [][\A i \in TicketIds :
          tickets'[i].notification_count >= tickets[i].notification_count]_vars

\* the step writes ticket i with a NOTIFIED, REPEATED or ESCALATED event appended
NotifyEventAppended(i) ==
    LET events == tickets'[i].events IN
    /\ i \notin DOMAIN tickets \/ tickets[i].events # events
    /\ events # <<>>
    /\ events[Len(events)].type \in {EV_NOTIFIED, EV_REPEATED, EV_ESCALATED}

\* C10: silence gate.  While the stored silenced_until of a project is later
\* than now, no step of the intake or of the scheduler appends a NOTIFIED,
\* REPEATED or ESCALATED event to a ticket of that project, also when the
\* silence was stored while the tick or the intake request was already running
\* with the project loaded.
C10_SilenceGate ==
    [][\A i \in DOMAIN tickets' :
          is_silenced(projects[tickets'[i].project_id]) => ~NotifyEventAppended(i)]_vars

\* C11: severity gate.  A step of the scheduler never writes a ticket whose
\* severity, lower-cased, is not "critical" (the empty severity included): no
\* REPEATED, ESCALATED or MAX_LEVEL_REACHED event is appended and status,
\* escalation_level, notification_count and last_notified_at stay as they
\* are, however long the ticket has been waiting.
C11_SeverityGate ==
    [][\A i \in TicketIds :
          (Lower(tickets[i].severity) # "critical" /\ tick' # tick)
              => tickets'[i] = tickets[i]]_vars

\* the tick is going through a project in which it loaded a ticket of
\* severity "warning" or "" that has waited for the escalation timeout, and
\* it has escalated a ticket of severity "CRITICAL"
C11_Witness ==
    /\ tick.pc = "tickets"
    /\ \E k \in 1..Len(tick.tickets) :
          LET doc == tick.tickets[k].doc IN
          /\ doc.severity \in {"warning", ""}
          /\ doc.last_notified_at # NULL
          /\ time_since_notification(doc, tick.now) >= tick.project[1].timeout_minutes
    /\ \E i \in TicketIds :
          tickets[i].severity = "CRITICAL" /\ tickets[i].status = ESCALATED

\* p is a prefix of q
IsPrefix(p, q) == Len(p) <= Len(q) /\ SubSeq(q, 1, Len(p)) = p

\* the timestamps of a timeline never go back
TimestampsOrdered(events) ==
    \A j \in 1..(Len(events) - 1) : events[j].timestamp <= events[j + 1].timestamp

\* C13: append-only timeline.  At every write of a ticket, in any interleaving
\* of the scheduler with the intake, ack and resolve handlers, the events
\* stored before are a prefix of the events stored after (nothing is removed
\* or reordered) and the stored timestamps are non-decreasing.
C13_TimelineAppendOnly ==
    [][\A i \in TicketIds :
          /\ IsPrefix(tickets[i].events, tickets'[i].events)
          /\ TimestampsOrdered(tickets'[i].events)]_vars

\* the step in which the intake answers a resolved event for project pid
ResolvedEventAnswered(pid) ==
    /\ resp'.kind = "webhook" /\ resp'.status = "resolved"
    /\ \E s \in Slots : /\ reqs[s].kind = "webhook" /\ reqs[s].status = "resolved"
                        /\ reqs[s].pr[1].id = pid
                        /\ reqs'[s].kind = "none"

\* C14: round trip.  When the intake has answered a resolved event for a
\* project, every ticket of the project that the intake had created and
\* notified before and that nobody acknowledged is resolved: status resolved,
\* resolved_at set, a RESOLVED entry in the timeline, whatever the scheduler
\* did to the ticket between the two events.
C14_RoundTrip ==
    [][\A i \in TicketIds :
          ( /\ ResolvedEventAnswered(tickets[i].project_id)
            /\ tickets[i].status \in {PENDING, ESCALATED}
            /\ HasEvent(tickets[i], EV_NOTIFIED) )
          => /\ tickets'[i].status = RESOLVED
             /\ tickets'[i].resolved_at # NULL
             /\ HasEvent(tickets'[i], EV_RESOLVED)]_vars

(***************************************************************************)
(* Specification: the intake and the scheduler while the project's group   *)
(* list is edited                                                          *)
(***************************************************************************)
NextEdit ==
    \/ now < MaxTime /\ Advance /\ Observe /\ UNCHANGED <<ticked, proc, call>>
    \/ /\ nreq < MaxRequests
       /\ \E s \in Slots, pid \in Projects, severity \in Severities :
            Room("firing", MaxTickets) /\ receive_webhook(s, "ns1", pid, "json", "firing", severity)
       /\ Observe /\ UNCHANGED <<ticked, proc, call>>
    \/ (\E s \in Slots : receive_webhook_project(s))
       /\ Observe /\ UNCHANGED <<ticked, proc, call>>
    \/ (\E s \in Slots : receive_webhook_insert(s)) /\ Observe /\ UNCHANGED <<ticked, proc, call>>
    \/ (\E s \in Slots : receive_webhook_first_group(s))
       /\ Observe /\ UNCHANGED <<ticked, proc, call>>
    \/ (\E s \in Slots : receive_webhook_notify_project(s))
       /\ Observe /\ UNCHANGED <<ticked, proc, call>>
    \/ (\E s \in Slots : receive_webhook_notify_group(s))
       /\ Observe /\ UNCHANGED <<ticked, proc, call>>
    \/ (\E s \in Slots, outcome \in DispatchOutcomes : receive_webhook_notify(s, outcome))
       /\ Observe /\ UNCHANGED <<ticked, proc, call>>
    \/ (\E s \in Slots : receive_webhook_notify_save(s))
       /\ Observe /\ UNCHANGED <<ticked, proc, call>>
    \/ check_and_escalate_tickets /\ Observe /\ UNCHANGED <<ticked, proc, call>>
    \/ check_project_tickets /\ Observe /\ UNCHANGED <<ticked, proc, call>>
    \/ check_and_escalate_tickets_done /\ Observe /\ UNCHANGED <<ticked, proc, call>>
    \/ process_ticket_no_action /\ Observe /\ UNCHANGED <<ticked, proc, call>>
    \/ process_ticket_max_level /\ Observe /\ UNCHANGED <<ticked, proc, call>>
    \/ process_ticket_max_level_save /\ Observe /\ UNCHANGED <<ticked, proc, call>>
    \/ process_ticket_next_level /\ Observe /\ UNCHANGED <<ticked, proc, call>>
    \/ process_ticket_next_group /\ Observe /\ UNCHANGED <<ticked, proc, call>>
    \/ process_ticket_repeat /\ Observe /\ UNCHANGED <<ticked, proc, call>>
    \/ (\E outcome \in DispatchOutcomes \ {"no_channel"} : repeat_notification(outcome))
       /\ Observe /\ UNCHANGED <<ticked, proc, call>>
    \/ repeat_notification_save /\ Observe /\ UNCHANGED <<ticked, proc, call>>
    \/ (\E outcome \in DispatchOutcomes \ {"no_channel"} : escalate_ticket(outcome))
       /\ Observe /\ UNCHANGED <<ticked, proc, call>>
    \/ escalate_ticket_save /\ Observe /\ UNCHANGED <<ticked, proc, call>>
    \/ /\ nreq < MaxRequests
       /\ \E s \in Slots, project_id \in Projects, notification_group_ids \in GroupLists :
            update_project(s, "ns1", project_id, GroupsForm(project_id, notification_group_ids))
       /\ Observe /\ UNCHANGED <<ticked, proc, call>>
    \/ (\E s \in Slots : update_project_get(s)) /\ Observe /\ UNCHANGED <<ticked, proc, call>>
    \/ (\E s \in Slots : update_project_save(s)) /\ Observe /\ UNCHANGED <<ticked, proc, call>>

SpecEdit == Init /\ [][NextEdit]_vars

\* C15: level bounds.  In every reachable state the escalation_level of a
\* stored ticket is at least 1 and, when the ticket's project exists, at most
\* the number of groups bound to the project, also after the project's group
\* list was edited while the ticket was open.
C15_LevelBounds ==
    \A i \in TicketIds :
        /\ tickets[i].escalation_level >= 1
        /\ tickets[i].project_id \in DOMAIN projects =>
              tickets[i].escalation_level
                  <= Len(projects[tickets[i].project_id].notification_group_ids)

(***************************************************************************)
(* Specification: the operations on a ticket found in the store, in any    *)
(* status the Ticket model admits                                          *)
(***************************************************************************)
StoredMaxTime == 3
StoredMaxRequests == 2

\* the minute at which the stored ticket is found
StoredNow == 2

\* the members of the enumeration TicketStatus: the statuses a stored ticket
\* document may carry
TicketStatus == {IGNORED, PENDING, ACKNOWLEDGED, ESCALATED, RESOLVED}

\* the statuses the handlers and the scheduler store: the intake creates
\* every ticket as pending (api/webhook.py), the scheduler writes escalated
\* (services/escalation.py), the acknowledgements acknowledged (api/ack.py,
\* web/tickets.py), the resolutions resolved (api/webhook.py,
\* web/tickets.py); no code writes the status ignored
StoredStatuses == TicketStatus \ {IGNORED}

\* a ticket document of the given status: created and notified at minute 0;
\* escalated after the project's timeout; acknowledged or resolved at the
\* current minute; an ignored document is one built with that status and
\* inserted as it is, never notified and with an empty timeline
StoredTicket(status, timeout) ==
    LET created == TicketEvent(EV_CREATED, 0, NULL, None, SuccessNone)
        notified == TicketEvent(EV_NOTIFIED, 0, 1, "g1", "True")
        escalated == TicketEvent(EV_ESCALATED, timeout, 2, "g2", "True")
        base == [project_id |-> 1, status |-> status, escalation_level |-> 1,
                 severity |-> "critical", ack_token |-> TokenOf(1),
                 acknowledged_at |-> NULL, acknowledged_by |-> None,
                 last_notified_at |-> NULL, notification_count |-> 0,
                 events |-> <<created>>, created_at |-> 0, updated_at |-> 0,
                 resolved_at |-> NULL]
        pending == [base EXCEPT !.last_notified_at = 0, !.notification_count = 1,
                                !.events = <<created, notified>>]
    IN  IF status = IGNORED THEN [base EXCEPT !.events = <<>>]
        ELSE IF status = PENDING THEN pending
        ELSE IF status = ESCALATED
            THEN [pending EXCEPT !.escalation_level = 2, !.last_notified_at = timeout,
                                 !.notification_count = 2, !.updated_at = timeout,
                                 !.events = <<created, notified, escalated>>]
        ELSE IF status = ACKNOWLEDGED
            THEN [pending EXCEPT !.acknowledged_at = StoredNow, !.acknowledged_by = "u1",
                                 !.updated_at = StoredNow,
                                 !.events = <<created, notified,
                                              TicketEvent(EV_ACKNOWLEDGED, StoredNow, NULL,
                                                          None, SuccessNone)>>]
        ELSE [pending EXCEPT !.resolved_at = StoredNow, !.updated_at = StoredNow,
                             !.events = <<created, notified,
                                          TicketEvent(EV_RESOLVED, StoredNow, NULL,
                                                      None, SuccessNone)>>]

\* the store holds one ticket, of one of the given statuses
InitStoredWith(statuses) ==
    /\ now = StoredNow
    /\ projects \in {f \in [Projects -> ProjectConfigs(Timeouts)] :
                        \A p \in Projects : f[p].id = p}
    /\ groups \in {g \in [Groups -> GroupConfigs] : \A i \in Groups : g[i].name = GroupName(i)}
    /\ namespaces = InitNamespaces /\ issued = InitIds
    /\ \E status \in statuses :
            tickets = <<StoredTicket(status, projects[1].timeout_minutes)>>
    /\ reqs = [s \in InitialSlots |-> NoReq]
    /\ tick = IdleTick
    /\ resp = NoResp
    /\ sent = 0
    /\ nreq = 0
    /\ ticked = FALSE
    /\ race = <<>>
    /\ proc = "up"
    /\ call = NoCall

\* the store holds one ticket the program has written
InitStored == InitStoredWith(StoredStatuses)

\* the store holds one ticket of any status the Ticket model admits, the
\* ignored document included, which no handler writes
InitAdmitted == InitStoredWith(TicketStatus)

NextStored ==
    \/ now < StoredMaxTime /\ Advance /\ Observe /\ UNCHANGED <<ticked, proc, call>>
    \/ /\ nreq < StoredMaxRequests
       /\ \E s \in Slots, pid \in Projects, severity \in Severities :
            receive_webhook(s, "ns1", pid, "json", "resolved", severity)
       /\ Observe /\ UNCHANGED <<ticked, proc, call>>
    \/ (\E s \in Slots : receive_webhook_project(s))
       /\ Observe /\ UNCHANGED <<ticked, proc, call>>
    \/ (\E s \in Slots : receive_webhook_find_pending(s)) /\ Observe /\ UNCHANGED <<ticked, proc, call>>
    \/ (\E s \in Slots : receive_webhook_resolve(s)) /\ Observe /\ UNCHANGED <<ticked, proc, call>>
    \/ check_and_escalate_tickets /\ Observe /\ UNCHANGED <<ticked, proc, call>>
    \/ check_project_tickets /\ Observe /\ UNCHANGED <<ticked, proc, call>>
    \/ check_and_escalate_tickets_done /\ Observe /\ UNCHANGED <<ticked, proc, call>>
    \/ process_ticket_no_action /\ Observe /\ UNCHANGED <<ticked, proc, call>>
    \/ process_ticket_max_level /\ Observe /\ UNCHANGED <<ticked, proc, call>>
    \/ process_ticket_max_level_save /\ Observe /\ UNCHANGED <<ticked, proc, call>>
    \/ process_ticket_next_level /\ Observe /\ UNCHANGED <<ticked, proc, call>>
    \/ process_ticket_next_group /\ Observe /\ UNCHANGED <<ticked, proc, call>>
    \/ process_ticket_repeat /\ Observe /\ UNCHANGED <<ticked, proc, call>>
    \/ (\E outcome \in DispatchOutcomes \ {"no_channel"} : repeat_notification(outcome))
       /\ Observe /\ UNCHANGED <<ticked, proc, call>>
    \/ repeat_notification_save /\ Observe /\ UNCHANGED <<ticked, proc, call>>
    \/ (\E outcome \in DispatchOutcomes \ {"no_channel"} : escalate_ticket(outcome))
       /\ Observe /\ UNCHANGED <<ticked, proc, call>>
    \/ escalate_ticket_save /\ Observe /\ UNCHANGED <<ticked, proc, call>>
    \/ /\ nreq < StoredMaxRequests
       /\ \E s \in Slots, ticket_id \in 1..MaxTickets, token \in RequestTokens,
             format \in Formats :
            acknowledge_ticket_via_link(s, ticket_id, token, format)
       /\ Observe /\ UNCHANGED <<ticked, proc, call>>
    \/ (\E s \in Slots : acknowledge_ticket_via_link_save(s)) /\ Observe /\ UNCHANGED <<ticked, proc, call>>
    \/ (\E s \in Slots : acknowledge_ticket_via_link_notify_project(s))
       /\ Observe /\ UNCHANGED <<ticked, proc, call>>
    \/ (\E s \in Slots : acknowledge_ticket_via_link_notify_group(s))
       /\ Observe /\ UNCHANGED <<ticked, proc, call>>
    \/ (\E s \in Slots, outcome \in AckBackOutcomes : acknowledge_ticket_via_link_notify(s, outcome))
       /\ Observe /\ UNCHANGED <<ticked, proc, call>>
    \/ /\ nreq < StoredMaxRequests
       /\ \E s \in Slots, ticket_id \in 1..MaxTickets, user \in Users :
            acknowledge_ticket(s, ticket_id, user)
       /\ Observe /\ UNCHANGED <<ticked, proc, call>>
    \/ (\E s \in Slots : acknowledge_ticket_save(s)) /\ Observe /\ UNCHANGED <<ticked, proc, call>>
    \/ (\E s \in Slots : acknowledge_ticket_notify_project(s))
       /\ Observe /\ UNCHANGED <<ticked, proc, call>>
    \/ (\E s \in Slots : acknowledge_ticket_notify_group(s))
       /\ Observe /\ UNCHANGED <<ticked, proc, call>>
    \/ (\E s \in Slots, outcome \in AckBackOutcomes : acknowledge_ticket_notify(s, outcome))
       /\ Observe /\ UNCHANGED <<ticked, proc, call>>
    \/ /\ nreq < StoredMaxRequests
       /\ \E s \in Slots, ticket_id \in 1..MaxTickets, user \in Users :
            resolve_ticket(s, ticket_id, user)
       /\ Observe /\ UNCHANGED <<ticked, proc, call>>
    \/ (\E s \in Slots : resolve_ticket_save(s)) /\ Observe /\ UNCHANGED <<ticked, proc, call>>

SpecStored == InitStored /\ [][NextStored]_vars

\* the same handlers run on any document the Ticket model admits
SpecAdmitted == InitAdmitted /\ [][NextStored]_vars

\* what a link acknowledgement with the valid token makes of a stored
\* ticket: the resulting status, whether acknowledged_at is set, the number of
\* ACKNOWLEDGED events appended, and whether the ack-back notification is
\* called
AckEvents(t) ==
    Cardinality({k \in 1..Len(t.events) : t.events[k].type = EV_ACKNOWLEDGED})

AckOutcome(t, after, notified) ==
    [status |-> after.status,
     acknowledged_at_set |-> after.acknowledged_at # NULL,
     appended |-> AckEvents(after) - AckEvents(t),
     ack_back |-> notified]

LinkAckOutcome(t) ==
    IF link_ack_early(<<t>>, t.ack_token) = ""
    THEN AckOutcome(t, AcknowledgedViaLink(t), TRUE)
    ELSE AckOutcome(t, t, FALSE)

\* what a web acknowledgement makes of it
WebAckOutcome(t, user) ==
    IF web_ack_early(<<t>>) = ""
    THEN AckOutcome(t, AcknowledgedByUser(t, user), TRUE)
    ELSE AckOutcome(t, t, FALSE)

\* C17: one state machine.  On every stored ticket, whatever its status, a
\* web acknowledgement and a link acknowledgement with the valid token give
\* the same resulting status, the same setting of acknowledged_at, the same
\* number of appended ACKNOWLEDGED events and the same decision to call the
\* ack-back notification.
C17_WebAckMatchesLinkAck ==
    \A i \in TicketIds : \A user \in Users :
        WebAckOutcome(tickets[i], user) = LinkAckOutcome(tickets[i])

\* a web acknowledgement was answered on a ticket that was stored as
\* escalated: the ticket is acknowledged by the user, with one ACKNOWLEDGED
\* event after the ESCALATED one
C17_Witness ==
    /\ resp.kind = "web_ack" /\ resp.tid \in TicketIds
    /\ tickets[resp.tid].status = ACKNOWLEDGED
    /\ tickets[resp.tid].acknowledged_by \in Users
    /\ tickets[resp.tid].acknowledged_at = now
    /\ AckEvents(tickets[resp.tid]) = 1
    /\ HasEvent(tickets[resp.tid], EV_ESCALATED)

\* the levels the claim names: the positions 0..escalation_level-1 of the
\* project's group list that exist and hold an existing group
AckBackLevels(t) ==
    {level \in 1..t.escalation_level :
        /\ level <= Len(projects[t.project_id].notification_group_ids)
        /\ groups[projects[t.project_id].notification_group_ids[level]].exists}

\* C18: link acknowledgement.  A link acknowledgement with the valid token
\* whose loaded ticket is neither acknowledged nor resolved writes a ticket
\* with status acknowledged, acknowledged_at = now, acknowledged_by = "link"
\* and exactly one more ACKNOWLEDGED event, and writes it before the ack-back
\* notification is called (nothing is sent in the step of the save).  The
\* steps of the ack-back notification leave the stored tickets as they are,
\* and the request is answered "acknowledged" with a success code when the
\* notification is over, however many groups it reached before it returned
\* or raised.
C18_LinkAckPersistsThenNotifies ==
    [][\A s \in Slots :
          /\ (reqs[s].kind = "link_ack" /\ reqs[s].pc = "loaded" /\ reqs'[s].pc = "saved") =>
                LET loaded == reqs[s].tk[1]
                    stored == tickets'[reqs[s].tid]
                IN  /\ loaded.ack_token = reqs[s].token
                    /\ loaded.status \notin {ACKNOWLEDGED, RESOLVED}
                    /\ stored.status = ACKNOWLEDGED
                    /\ stored.acknowledged_at = now
                    /\ stored.acknowledged_by = "link"
                    /\ Len(stored.events) = Len(loaded.events) + 1
                    /\ IsPrefix(loaded.events, stored.events)
                    /\ stored.events[Len(stored.events)].type = EV_ACKNOWLEDGED
                    /\ sent' = 0
                    /\ resp' = NoResp
          /\ (reqs[s].kind = "link_ack" /\ reqs[s].pc \in {"ack_back", "ack_send"}
                /\ reqs'[s] # reqs[s]) =>
                /\ tickets' = tickets
                /\ reqs'[s].kind = "link_ack" => resp' = NoResp
          /\ (reqs[s].kind = "link_ack" /\ reqs'[s].kind = "none") =>
                /\ reqs[s].pc \in {"saved", "ack_back", "ack_send"}
                /\ tickets' = tickets
                /\ resp'.kind = "link_ack" /\ resp'.tid = reqs[s].tid
                /\ resp'.status = "acknowledged"
                /\ resp'.code \in {200, 302}]_vars

\* a link acknowledgement was answered positively although its ack-back
\* notification reached no group, and the ticket is stored as acknowledged
\* via the link
C18_Witness ==
    /\ resp.kind = "link_ack" /\ resp.status = "acknowledged" /\ resp.code = 200
    /\ sent = 0
    /\ resp.tid \in TicketIds
    /\ tickets[resp.tid].project_id \in DOMAIN projects
    /\ projects[tickets[resp.tid].project_id].notify_on_ack
    /\ AckBackLevels(tickets[resp.tid]) # {}
    /\ tickets[resp.tid].status = ACKNOWLEDGED
    /\ tickets[resp.tid].acknowledged_by = "link"
    /\ tickets[resp.tid].acknowledged_at = now
    /\ AckEvents(tickets[resp.tid]) = 1

(***************************************************************************)
(* Specification: the intake and the scheduler up to and after a shutdown, *)
(* of the first process or of the process started after a crash            *)
(***************************************************************************)
NextShutdown ==
    \/ now < MaxTime /\ proc # "stopped" /\ Advance /\ Observe /\ UNCHANGED <<ticked, proc, call>>
    \/ /\ nreq < MaxRequests /\ proc # "stopped"
       /\ \E s \in Slots, pid \in Projects, severity \in Severities :
            Room("firing", MaxTickets) /\ receive_webhook(s, "ns1", pid, "json", "firing", severity)
       /\ Observe /\ UNCHANGED <<ticked, proc, call>>
    \/ (\E s \in Slots : receive_webhook_project(s))
       /\ Observe /\ UNCHANGED <<ticked, proc, call>>
    \/ (\E s \in Slots : receive_webhook_insert(s)) /\ Observe /\ UNCHANGED <<ticked, proc, call>>
    \/ (\E s \in Slots : receive_webhook_first_group(s))
       /\ Observe /\ UNCHANGED <<ticked, proc, call>>
    \/ (\E s \in Slots : receive_webhook_notify_project(s))
       /\ Observe /\ UNCHANGED <<ticked, proc, call>>
    \/ (\E s \in Slots : receive_webhook_notify_group(s))
       /\ Observe /\ UNCHANGED <<ticked, proc, call>>
    \/ (\E s \in Slots, outcome \in DispatchOutcomes : receive_webhook_notify(s, outcome))
       /\ Observe /\ UNCHANGED <<ticked, proc, call>>
    \/ (\E s \in Slots : receive_webhook_notify_save(s))
       /\ Observe /\ UNCHANGED <<ticked, proc, call>>
    \/ check_and_escalate_tickets /\ Observe /\ UNCHANGED <<ticked, proc, call>>
    \/ check_project_tickets /\ Observe /\ UNCHANGED <<ticked, proc, call>>
    \/ check_and_escalate_tickets_done /\ Observe /\ UNCHANGED <<ticked, proc, call>>
    \/ process_ticket_no_action /\ Observe /\ UNCHANGED <<ticked, proc, call>>
    \/ process_ticket_max_level /\ Observe /\ UNCHANGED <<ticked, proc, call>>
    \/ process_ticket_max_level_save /\ Observe /\ UNCHANGED <<ticked, proc, call>>
    \/ process_ticket_next_level /\ Observe /\ UNCHANGED <<ticked, proc, call>>
    \/ process_ticket_next_group /\ Observe /\ UNCHANGED <<ticked, proc, call>>
    \/ process_ticket_repeat /\ Observe /\ UNCHANGED <<ticked, proc, call>>
    \/ (\E outcome \in DispatchOutcomes \ {"no_channel"} : repeat_notification(outcome))
       /\ Observe /\ UNCHANGED <<ticked, proc, call>>
    \/ repeat_notification_save /\ Observe /\ UNCHANGED <<ticked, proc, call>>
    \/ (\E outcome \in DispatchOutcomes \ {"no_channel"} : escalate_ticket(outcome))
       /\ Observe /\ UNCHANGED <<ticked, proc, call>>
    \/ escalate_ticket_save /\ Observe /\ UNCHANGED <<ticked, proc, call>>
    \/ crash /\ Observe
    \/ stop_scheduler /\ Observe
    \/ check_and_escalate_tickets_cancelled /\ Observe /\ UNCHANGED <<ticked, proc, call>>

SpecShutdown == Init /\ [][NextShutdown]_vars

\* C19: shutdown joins the tick in flight.  Once stop_scheduler has returned
\* no tick is running, and from then on no step of a tick writes a ticket.
C19_ShutdownJoinsTick ==
    [][proc' = "stopped" =>
          (tick'.pc = "idle" /\ (tick' # tick => tickets' = tickets))]_vars

(***************************************************************************)
(* Specification: the intake and the scheduler with one crash between a    *)
(* dispatch and its save; the interval job keeps firing and a tick that    *)
(* has started runs on                                                     *)
(***************************************************************************)
TickStep ==
    \/ check_and_escalate_tickets
    \/ check_project_tickets
    \/ check_and_escalate_tickets_done
    \/ process_ticket_no_action
    \/ process_ticket_max_level
    \/ process_ticket_max_level_save
    \/ process_ticket_next_level
    \/ process_ticket_next_group
    \/ process_ticket_repeat
    \/ \E outcome \in DispatchOutcomes \ {"no_channel"} : repeat_notification(outcome)
    \/ repeat_notification_save
    \/ \E outcome \in DispatchOutcomes \ {"no_channel"} : escalate_ticket(outcome)
    \/ escalate_ticket_save

NextCrash ==
    \/ now < MaxTime /\ Advance /\ Observe /\ UNCHANGED <<ticked, proc, call>>
    \/ /\ nreq < MaxRequests
       /\ \E s \in Slots, pid \in Projects, severity \in Severities :
            Room("firing", MaxTickets) /\ receive_webhook(s, "ns1", pid, "json", "firing", severity)
       /\ Observe /\ UNCHANGED <<ticked, proc, call>>
    \/ (\E s \in Slots : receive_webhook_project(s))
       /\ Observe /\ UNCHANGED <<ticked, proc, call>>
    \/ (\E s \in Slots : receive_webhook_insert(s)) /\ Observe /\ UNCHANGED <<ticked, proc, call>>
    \/ (\E s \in Slots : receive_webhook_first_group(s))
       /\ Observe /\ UNCHANGED <<ticked, proc, call>>
    \/ (\E s \in Slots : receive_webhook_notify_project(s))
       /\ Observe /\ UNCHANGED <<ticked, proc, call>>
    \/ (\E s \in Slots : receive_webhook_notify_group(s))
       /\ Observe /\ UNCHANGED <<ticked, proc, call>>
    \/ (\E s \in Slots, outcome \in DispatchOutcomes : receive_webhook_notify(s, outcome))
       /\ Observe /\ UNCHANGED <<ticked, proc, call>>
    \/ (\E s \in Slots : receive_webhook_notify_save(s))
       /\ Observe /\ UNCHANGED <<ticked, proc, call>>
    \/ TickStep /\ Observe /\ UNCHANGED <<ticked, proc, call>>
    \/ crash /\ Observe

SpecCrash == Init /\ [][NextCrash]_vars /\ WF_vars(TickStep /\ Observe /\ UNCHANGED <<ticked, proc, call>>)

\* the stored ticket i is at level L and due for escalation
DueAt(i, L) ==
    /\ i \in TicketIds
    /\ tickets[i].escalation_level = L
    /\ tickets[i].project_id \in DOMAIN projects
    /\ LET project == projects[tickets[i].project_id] IN
          /\ project.enabled /\ project.is_active /\ ~is_silenced(project)
          /\ process_ticket(tickets[i], project, Len(project.notification_group_ids), now,
                            groups)
                = "escalate"

\* the timeline of t records an escalation to the given level
HasEscalatedTo(t, level) ==
    \E k \in 1..Len(t.events) :
        t.events[k].type = EV_ESCALATED /\ t.events[k].level = level

\* the stored ticket i has been escalated from level L, and its timeline
\* records it
EscalatedFrom(i, L) ==
    /\ i \in TicketIds
    /\ tickets[i].escalation_level = L + 1
    /\ tickets[i].status = ESCALATED
    /\ HasEscalatedTo(tickets[i], L + 1)

\* C20: crash between dispatch and save.  The dispatch step of
\* _escalate_ticket writes no ticket, and a crash before its save leaves the
\* stored tickets (status, escalation_level, notification_count, events) as
\* they were, one level below the copy the tick held; after the restart a
\* stored ticket that is due for escalation is escalated by a later tick.
C20_CrashKeepsPriorState ==
    /\ [][/\ (tick.pc = "escalate_send" /\ tick'.pc = "escalate_save") =>
                (tickets' = tickets /\ sent' = 1)
          /\ (proc = "up" /\ proc' = "restarted") =>
                /\ tick.pc = "escalate_save"
                /\ tickets' = tickets
                /\ tick'.pc = "idle"
                /\ LET i == tick.cur[1].id IN
                      /\ tickets'[i].escalation_level = tick.cur[1].doc.escalation_level - 1
                      /\ tickets'[i].status \in {PENDING, ESCALATED}
                      /\ ~HasEscalatedTo(tickets'[i], tick.cur[1].doc.escalation_level)]_vars
    /\ \A i \in 1..MaxTickets : \A L \in 1..Cardinality(Groups) :
          (proc = "restarted" /\ DueAt(i, L)) ~> EscalatedFrom(i, L)

\* after the crash the ticket that was being escalated has been escalated by
\* a later tick: two dispatches, one recorded
C20_Witness ==
    /\ proc = "restarted"
    /\ tick.pc = "tickets" /\ tick.cur = <<>>
    /\ \E i \in TicketIds :
          /\ EscalatedFrom(i, 1)
          /\ HasEvent(tickets[i], EV_NOTIFIED)
          /\ tickets[i].notification_count = 2

(***************************************************************************)
(* Specification: one call of NotificationService.send_to_group on a group *)
(* whose channel configs are drawn from the cases below                    *)
(* (services/notification.py)                                              *)
(***************************************************************************)
MaxConfigs == 2

\* the variables a call of a service function leaves alone
OnlyCall ==
    UNCHANGED <<now, projects, groups, namespaces, issued, tickets, reqs, tick, resp, sent, nreq, ticked,
                race, proc>>

\* ChannelType (models/notification_group.py)
ChannelTypes == {"feishu", "email", "sms", "slack"}

\* what becomes of the contact_ids of a channel config: the contact is found,
\* no contact with these ids exists any more, or an id is not a well-formed
\* ObjectId and ObjectId(cid) raises
ContactLookups == {"found", "none", "invalid_id"}

\* a channel config with its one contact: whether the contact has an address
\* for the type of the channel, and whether the transport adapter succeeds.
\* For a slack config the branch reads contact.slack_channel_id, a field the
\* Contact document does not have: AttributeError on the first contact found
ChannelConfigs ==
    [type : ChannelTypes, contacts : ContactLookups, address : BOOLEAN, delivered : BOOLEAN]

\* the key of the result map a channel config reports under
ChannelLabel(config) ==
    IF config.type = "feishu" THEN "feishu:c1" ELSE config.type

\* dict.update with a single entry
Update(results, label, success) ==
    {e \in results : e[1] # label} \cup {<<label, success>>}

ConfigLists ==
    UNION {[1..n -> ChannelConfigs] : n \in 0..MaxConfigs}

\* the state after construction, but for the call under test
InitNoCall ==
    /\ now = 0
    /\ projects \in {f \in [Projects -> ProjectConfigs(Timeouts)] :
                        \A p \in Projects : f[p].id = p}
    /\ groups \in {g \in [Groups -> GroupConfigs] : \A i \in Groups : g[i].name = GroupName(i)}
    /\ namespaces = InitNamespaces /\ issued = InitIds
    /\ tickets = <<>>
    /\ reqs = [s \in InitialSlots |-> NoReq]
    /\ tick = IdleTick
    /\ resp = NoResp
    /\ sent = 0
    /\ nreq = 0
    /\ ticked = FALSE
    /\ race = <<>>
    /\ proc = "up"

InitSend ==
    /\ InitNoCall
    /\ \E channel_configs \in ConfigLists :
          call = [fn |-> "send_to_group", channel_configs |-> channel_configs, k |-> 1,
                  results |-> {}, status |-> "running", calls |-> 0]

\* _send_to_channel_config on the next config of the group; an exception it
\* raises leaves send_to_group, which has no handler; calls counts the
\* adapter invocations (send_safe) made so far
send_to_channel_config ==
    /\ call.fn = "send_to_group" /\ call.status = "running"
    /\ call.k <= Len(call.channel_configs)
    /\ LET config == call.channel_configs[call.k] IN
       call' = IF config.contacts = "invalid_id"
                   THEN [call EXCEPT !.status = "raised"]
               ELSE IF config.contacts = "none"
                   THEN [call EXCEPT !.k = @ + 1]
               ELSE IF config.type = "slack"
                   THEN [call EXCEPT !.status = "raised"]
               ELSE IF ~config.address
                   THEN [call EXCEPT !.k = @ + 1]
               ELSE [call EXCEPT !.k = @ + 1, !.calls = @ + 1,
                                 !.results = Update(@, ChannelLabel(config), config.delivered)]
    /\ OnlyCall

\* return results
send_to_group ==
    /\ call.fn = "send_to_group" /\ call.status = "running"
    /\ call.k > Len(call.channel_configs)
    /\ call' = [call EXCEPT !.status = "returned"]
    /\ OnlyCall

NextSend ==
    \/ send_to_channel_config
    \/ send_to_group

SpecSend == InitSend /\ [][NextSend]_vars

\* C21: send_to_group never raises.  A call of send_to_group never ends in an
\* exception: it attempts every channel config of the group and returns a
\* map in which a config that failed has a false entry or no entry.
C21_SendToGroupNeverRaises ==
    call.fn = "send_to_group" =>
        /\ call.status # "raised"
        /\ call.status = "returned" =>
              /\ call.k = Len(call.channel_configs) + 1
              /\ \A e \in call.results :
                    e[2] => \E j \in 1..Len(call.channel_configs) :
                              LET config == call.channel_configs[j] IN
                              /\ ChannelLabel(config) = e[1]
                              /\ config.contacts = "found"
                              /\ config.address /\ config.delivered

(***************************************************************************)
(* Specification: one call of NotificationService.notify_ticket_acknowledged *)
(* on a ticket, over the projects and groups a store can hold              *)
(***************************************************************************)
MaxLevel == 3

\* the maps send_to_group can return for one group
GroupResults ==
    {{}, {<<"email", TRUE>>}, {<<"email", FALSE>>, <<"feishu:c1", TRUE>>}}

\* why notify_ticket_acknowledged returns {} before its loop, "" when it
\* enters the loop
ack_back_early(t) ==
    LET pr == ProjectGet(t.project_id) IN
    IF pr = <<>> THEN "no_project"
    ELSE IF ~pr[1].notify_on_ack THEN "disabled"
    ELSE IF Len(pr[1].notification_group_ids) = 0 THEN "no_groups"
    ELSE ""

InitAckBack ==
    /\ now = 0
    /\ projects \in {f \in [Projects -> [id : Projects, namespace_id : {"ns1"},
                                           is_active : {TRUE}, enabled : {TRUE},
                                           timeout_minutes : {1},
                                           notification_group_ids : GroupLists,
                                           notify_on_ack : BOOLEAN,
                                           silenced_until : {NULL}]] :
                        \A p \in Projects : f[p].id = p}
    /\ groups \in {g \in [Groups -> [exists : BOOLEAN, name : {"g1", "g2"},
                                      repeat_interval : {NULL}]] :
                        \A i \in Groups : g[i].name = GroupName(i)}
    /\ namespaces = InitNamespaces /\ issued = InitIds
    /\ tickets = <<>>
    /\ reqs = [s \in InitialSlots |-> NoReq]
    /\ tick = IdleTick
    /\ resp = NoResp
    /\ sent = 0
    /\ nreq = 0
    /\ ticked = FALSE
    /\ race = <<>>
    /\ proc = "up"
    /\ \E project_id \in 1..(NumProjects + 1), escalation_level \in 1..MaxLevel :
          call = [fn |-> "notify_ticket_acknowledged",
                  ticket |-> [project_id |-> project_id,
                              escalation_level |-> escalation_level],
                  status |-> "called", loaded |-> <<>>, found |-> <<>>, level |-> 0,
                  calls |-> <<>>, all_results |-> {}]

\* from the call to the loop: the project is loaded and checked
notify_ticket_acknowledged_project ==
    /\ call.fn = "notify_ticket_acknowledged" /\ call.status = "called"
    /\ call' = IF ack_back_early(call.ticket) # ""
               THEN [call EXCEPT !.status = "returned",
                                 !.loaded = ProjectGet(call.ticket.project_id)]
               ELSE [call EXCEPT !.status = "loop", !.level = 1,
                                 !.loaded = ProjectGet(call.ticket.project_id)]
    /\ OnlyCall

\* a turn of the loop over the levels, on the project that was loaded: the
\* loop is left at the end of the group list; the group is looked up and a
\* missing group is skipped
notify_ticket_acknowledged_group ==
    /\ call.fn = "notify_ticket_acknowledged" /\ call.status = "loop"
    /\ call.level <= call.ticket.escalation_level
    /\ LET ids == call.loaded[1].notification_group_ids
           level == call.level
       IN  IF level - 1 >= Len(ids)
           THEN call' = [call EXCEPT !.status = "returned"]
           ELSE IF GroupGet(ids[level]) = <<>>
           THEN call' = [call EXCEPT !.level = @ + 1]
           ELSE call' = [call EXCEPT !.status = "send", !.found = <<ids[level]>>]
    /\ OnlyCall

\* the group that was found is sent to; the results are merged under the
\* prefix of the level, and an exception of send_to_group ends the call
notify_ticket_acknowledged_level(outcome, results) ==
    /\ call.fn = "notify_ticket_acknowledged" /\ call.status = "send"
    /\ outcome = "raises" => results = {}
    /\ LET level == call.level IN
       call' = [call EXCEPT
            !.status = IF outcome = "raises" THEN "raised" ELSE "loop",
            !.level = @ + 1,
            !.calls = Append(@, [level |-> level,
                                 group |-> call.found[1],
                                 is_ack_notification |-> TRUE,
                                 results |-> results]),
            !.all_results = {e \in @ : ~(e[1] = level /\ \E r \in results : r[1] = e[2])}
                                \cup {<<level, r[1], r[2]>> : r \in results}]
    /\ OnlyCall

\* return all_results after the last level
notify_ticket_acknowledged_return ==
    /\ call.fn = "notify_ticket_acknowledged" /\ call.status = "loop"
    /\ call.level > call.ticket.escalation_level
    /\ call' = [call EXCEPT !.status = "returned"]
    /\ OnlyCall

NextAckBack ==
    \/ notify_ticket_acknowledged_project
    \/ notify_ticket_acknowledged_group
    \/ \E outcome \in AckBackOutcomes, results \in GroupResults :
          notify_ticket_acknowledged_level(outcome, results)
    \/ notify_ticket_acknowledged_return

SpecAckBack == InitAckBack /\ [][NextAckBack]_vars

\* C22: ack-back dispatch.  When notify_ticket_acknowledged is over: if
\* the ticket's project exists and has notify_on_ack, send_to_group was called
\* with is_ack_notification exactly once, in order of level, for each existing
\* group at the positions 0..escalation_level-1 of the project's group list,
\* and the returned map holds exactly the results of these calls, each under
\* the level of the group it came from; otherwise nothing was sent and the
\* map is empty.
C22_AckBackDispatch ==
    (call.fn = "notify_ticket_acknowledged" /\ call.status \in {"returned", "raised"}) =>
        LET t == call.ticket IN
        IF t.project_id \in DOMAIN projects /\ projects[t.project_id].notify_on_ack
        THEN /\ {call.calls[k].level : k \in 1..Len(call.calls)} = AckBackLevels(t)
             /\ Len(call.calls) = Cardinality(AckBackLevels(t))
             /\ \A k \in 1..Len(call.calls) :
                   /\ call.calls[k].is_ack_notification
                   /\ call.calls[k].group
                        = projects[t.project_id].notification_group_ids[call.calls[k].level]
                   /\ k > 1 => call.calls[k - 1].level < call.calls[k].level
             /\ call.all_results
                  = UNION {{<<call.calls[k].level, r[1], r[2]>> : r \in call.calls[k].results} :
                             k \in 1..Len(call.calls)}
        ELSE call.calls = <<>> /\ call.all_results = {}

(***************************************************************************)
(* Specification: the intake over every request it can receive (any        *)
(* namespace slug, project id and body), on a project that may be disabled *)
(* and a store that may hold a ticket                                      *)
(***************************************************************************)
IntakeMaxTickets == 2

\* the forms the project handlers are submitted with under SpecIntake
IntakeForms ==
    {form \in ProjectForm({<<1, 2>>}, {NULL}) : form.notify_on_ack /\ form.enabled}

InitIntake ==
    /\ now = 0
    /\ projects \in {f \in [Projects -> [id : Projects, namespace_id : Namespaces,
                                           is_active : BOOLEAN, enabled : {TRUE},
                                           timeout_minutes : {1},
                                           notification_group_ids : {<<1, 2>>},
                                           notify_on_ack : {TRUE},
                                           silenced_until : {NULL}]] :
                        \A p \in Projects : f[p].id = p}
    /\ groups = [i \in Groups |-> [exists |-> TRUE, name |-> GroupName(i),
                                    repeat_interval |-> NULL]]
    /\ namespaces = InitNamespaces /\ issued = InitIds
    /\ tickets \in {<<>>, <<StoredTicket(PENDING, 1)>>}
    /\ reqs = [s \in 1..IntakeInflight |-> NoReq]
    /\ tick = IdleTick
    /\ resp = NoResp
    /\ sent = 0
    /\ nreq = 0
    /\ ticked = FALSE
    /\ race = <<>>
    /\ proc = "up"
    /\ call = NoCall

NextIntake ==
    \/ now < MaxTime /\ Advance /\ Observe /\ UNCHANGED <<ticked, proc, call>>
    \/ /\ nreq < IntakeMaxRequests
       /\ \E s \in Slots, namespace_slug \in NamespaceSlugs,
             project_id \in 1..(NumProjects + 1), body \in Bodies,
             status \in WebhookStatuses, severity \in Severities :
            /\ Room(status, IntakeMaxTickets)
            /\ receive_webhook(s, namespace_slug, project_id, body, status, severity)
       /\ Observe /\ UNCHANGED <<ticked, proc, call>>
    \/ (\E s \in Slots : receive_webhook_project(s))
       /\ Observe /\ UNCHANGED <<ticked, proc, call>>
    \/ (\E s \in Slots : receive_webhook_find_pending(s))
       /\ Observe /\ UNCHANGED <<ticked, proc, call>>
    \/ (\E s \in Slots : receive_webhook_resolve(s))
       /\ Observe /\ UNCHANGED <<ticked, proc, call>>
    \/ (\E s \in Slots : receive_webhook_insert(s))
       /\ Observe /\ UNCHANGED <<ticked, proc, call>>
    \/ (\E s \in Slots : receive_webhook_first_group(s))
       /\ Observe /\ UNCHANGED <<ticked, proc, call>>
    \/ (\E s \in Slots : receive_webhook_notify_project(s))
       /\ Observe /\ UNCHANGED <<ticked, proc, call>>
    \/ (\E s \in Slots : receive_webhook_notify_group(s))
       /\ Observe /\ UNCHANGED <<ticked, proc, call>>
    \/ (\E s \in Slots, outcome \in SendOutcomes : receive_webhook_notify(s, outcome))
       /\ Observe /\ UNCHANGED <<ticked, proc, call>>
    \/ (\E s \in Slots : receive_webhook_notify_save(s))
       /\ Observe /\ UNCHANGED <<ticked, proc, call>>
    \/ /\ nreq < IntakeMaxRequests
       /\ \E s \in Slots, project_id \in Projects, form \in IntakeForms :
            update_project(s, "ns1", project_id, form)
       /\ Observe /\ UNCHANGED <<ticked, proc, call>>
    \/ (\E s \in Slots : update_project_get(s)) /\ Observe /\ UNCHANGED <<ticked, proc, call>>
    \/ (\E s \in Slots : update_project_save(s)) /\ Observe /\ UNCHANGED <<ticked, proc, call>>
    \/ /\ nreq < IntakeMaxRequests /\ issued.projects < IntakeMaxProjects /\ NoneInFlight("new_project")
       /\ \E s \in Slots, namespace_id \in Namespaces, form \in IntakeForms :
            form.is_active /\ create_project(s, namespace_id, form)
       /\ Observe /\ UNCHANGED <<ticked, proc, call>>
    \/ (\E s \in Slots : create_project_insert(s))
       /\ Observe /\ UNCHANGED <<ticked, proc, call>>
    \/ /\ nreq < IntakeMaxRequests
       /\ \E s \in Slots, project_id \in Projects : delete_project(s, project_id)
       /\ Observe /\ UNCHANGED <<ticked, proc, call>>
    \/ (\E s \in Slots : delete_project_delete(s))
       /\ Observe /\ UNCHANGED <<ticked, proc, call>>
    \/ /\ nreq < IntakeMaxRequests
       /\ \E s \in Slots, slug \in NamespaceSlugs : create_namespace(s, slug)
       /\ Observe /\ UNCHANGED <<ticked, proc, call>>
    \/ (\E s \in Slots : create_namespace_insert(s))
       /\ Observe /\ UNCHANGED <<ticked, proc, call>>
    \/ /\ nreq < IntakeMaxRequests
       /\ \E s \in Slots, namespace_id \in Namespaces, slug \in NamespaceSlugs :
            update_namespace(s, namespace_id, slug)
       /\ Observe /\ UNCHANGED <<ticked, proc, call>>
    \/ (\E s \in Slots : update_namespace_find(s))
       /\ Observe /\ UNCHANGED <<ticked, proc, call>>
    \/ (\E s \in Slots : update_namespace_save(s))
       /\ Observe /\ UNCHANGED <<ticked, proc, call>>
    \/ /\ nreq < IntakeMaxRequests
       /\ \E s \in Slots, namespace_id \in Namespaces : delete_namespace(s, namespace_id)
       /\ Observe /\ UNCHANGED <<ticked, proc, call>>
    \/ (\E s \in Slots : delete_namespace_projects(s))
       /\ Observe /\ UNCHANGED <<ticked, proc, call>>
    \/ (\E s \in Slots : delete_namespace_delete(s))
       /\ Observe /\ UNCHANGED <<ticked, proc, call>>
    \/ /\ nreq < IntakeMaxRequests
       /\ \E s \in Slots, project_id \in Projects, duration \in SilenceFields :
            Console(silence_project(s, project_id, duration))
    \/ \E s \in Slots : Console(silence_project_save(s))
    \/ /\ nreq < IntakeMaxRequests
       /\ \E s \in Slots, project_id \in Projects : Console(unsilence_project(s, project_id))
    \/ \E s \in Slots : Console(unsilence_project_save(s))

SpecIntake == InitIntake /\ [][NextIntake]_vars

\* the answers the handler gives before it looks at the payload
RejectedWebhook(r) ==
    /\ r.kind = "webhook"
    /\ r.code \in {404, 400} \/ (r.code = 200 /\ r.status = "ignored")

\* C23: rejected webhooks have no effect.  A step that answers a webhook
\* request with 404, with 400, or with 200 and status "ignored" leaves the
\* stored tickets as they are (none created, none modified), ends the
\* request (or never started it) and sends no notification; and the lookup
\* of the namespace, the one step such a request took before, wrote no ticket
\* and sent nothing either.
C23_RejectedWebhookHasNoEffect ==
    [][/\ RejectedWebhook(resp') =>
          /\ tickets' = tickets
          /\ sent' = 0
          /\ \A s \in Slots :
                \/ reqs'[s] = reqs[s]
                \/ reqs[s].kind = "webhook" /\ reqs[s].pc = "namespace" /\ reqs'[s] = NoReq
       /\ \A s \in Slots :
             (reqs'[s] # reqs[s] /\ reqs'[s].kind = "webhook" /\ reqs'[s].pc = "namespace") =>
                 tickets' = tickets /\ sent' = 0
      ]_vars

\* a request with a body that is not JSON was answered 400 while the store
\* holds a ticket of its project
C23_Witness ==
    /\ resp.kind = "webhook" /\ resp.code = 400
    /\ tickets # <<>>
    /\ \A i \in TicketIds : tickets[i].status = PENDING

(***************************************************************************)
(* Specification: one call of TemplateService.build_context                *)
(* (services/template.py).  A label is the pair of its fixed text and the  *)
(* value formatted into it: <<"acked_by", name>> for the acknowledged      *)
(* label with a name, <<"acked">> for the one without,                     *)
(* <<"escalated_to_L", level>> for the escalated label,                    *)
(* <<"nth_notification", count>> for the numbered-notification label and   *)
(* <<>> for the empty string.                                              *)
(***************************************************************************)
MaxCount == 3

\* the notification_count argument: None or a number
CountArguments == {NULL} \cup (0..MaxCount)

Names == {"", "u1"}

\* a build_context that looks at is_escalated before is_ack_notification
build_context_escalation_first(ticket, is_escalated, is_repeated, notification_count, is_ack_notification, acknowledged_by_name) ==
    LET count == IF notification_count # NULL THEN notification_count
                 ELSE ticket.notification_count + 1
    IN  [notification_count |-> count,
         notification_label |->
            IF is_escalated THEN <<"escalated_to_L", ticket.escalation_level>>
            ELSE IF is_ack_notification
                THEN (IF acknowledged_by_name # "" THEN <<"acked_by", acknowledged_by_name>>
                      ELSE <<"acked">>)
            ELSE IF is_repeated THEN <<"nth_notification", count>>
            ELSE IF count > 1 THEN <<"nth_notification", count>>
            ELSE <<>>]

\* build_context: the count and the label of the context
build_context(ticket, is_escalated, is_repeated, notification_count, is_ack_notification, acknowledged_by_name) ==
    LET count == IF notification_count # NULL THEN notification_count
                 ELSE ticket.notification_count + 1
    IN  [notification_count |-> count,
         notification_label |->
            IF is_ack_notification
                THEN (IF acknowledged_by_name # "" THEN <<"acked_by", acknowledged_by_name>>
                      ELSE <<"acked">>)
            ELSE IF is_escalated THEN <<"escalated_to_L", ticket.escalation_level>>
            ELSE IF is_repeated THEN <<"nth_notification", count>>
            ELSE IF count > 1 THEN <<"nth_notification", count>>
            ELSE <<>>]

InitLabel ==
    /\ InitNoCall
    /\ \E is_escalated \in BOOLEAN, is_repeated \in BOOLEAN, is_ack_notification \in BOOLEAN,
          notification_count \in CountArguments, acknowledged_by_name \in Names,
          ticket \in [escalation_level : 1..MaxLevel, notification_count : 0..MaxCount] :
          call = [fn |-> "build_context", ticket |-> ticket,
                  is_escalated |-> is_escalated, is_repeated |-> is_repeated,
                  notification_count |-> notification_count,
                  is_ack_notification |-> is_ack_notification,
                  acknowledged_by_name |-> acknowledged_by_name,
                  status |-> "called", context |-> <<>>]

build_context_returns ==
    /\ call.fn = "build_context" /\ call.status = "called"
    /\ call' = [call EXCEPT
            !.status = "returned",
            !.context = <<build_context(call.ticket, call.is_escalated, call.is_repeated,
                                        call.notification_count, call.is_ack_notification,
                                        call.acknowledged_by_name)>>]
    /\ OnlyCall

NextLabel == build_context_returns

SpecLabel == InitLabel /\ [][NextLabel]_vars

\* C25: the label table.  The context build_context returns has
\* notification_count = the supplied count, or the ticket's count + 1 when
\* none is supplied, and its notification_label is the first matching row of:
\* is_ack_notification: "acked by <name>", or "acked" when the name is empty;
\* is_escalated: "escalated to L<ticket.escalation_level>"; is_repeated or
\* count > 1: "notification number <count>"; otherwise the empty string.
C25_LabelTable ==
    (call.fn = "build_context" /\ call.status = "returned") =>
        LET count == call.context[1].notification_count
            label == call.context[1].notification_label
        IN  /\ call.notification_count # NULL => count = call.notification_count
            /\ call.notification_count = NULL => count = call.ticket.notification_count + 1
            /\ (call.is_ack_notification /\ call.acknowledged_by_name # "") =>
                  label = <<"acked_by", call.acknowledged_by_name>>
            /\ (call.is_ack_notification /\ call.acknowledged_by_name = "") =>
                  label = <<"acked">>
            /\ (~call.is_ack_notification /\ call.is_escalated) =>
                  label = <<"escalated_to_L", call.ticket.escalation_level>>
            /\ (~call.is_ack_notification /\ ~call.is_escalated
                    /\ (call.is_repeated \/ count > 1)) =>
                  label = <<"nth_notification", count>>
            /\ (~call.is_ack_notification /\ ~call.is_escalated
                    /\ ~call.is_repeated /\ count <= 1) =>
                  label = <<>>

\* an acknowledgement notification of an escalated ticket was labelled with
\* the name, and the count came from the ticket
C25_Witness ==
    /\ call.fn = "build_context" /\ call.status = "returned"
    /\ call.is_ack_notification /\ call.is_escalated /\ call.is_repeated
    /\ call.notification_count = NULL
    /\ call.context[1].notification_count = 3
    /\ call.context[1].notification_label = <<"acked_by", "u1">>

(***************************************************************************)
(* Specification: one call of AliyunSource.parse (sources/aliyun_pai.py)   *)
(***************************************************************************)
\* the text after the key of the task status line of the payload; "absent"
\* when the payload has no such line
TaskStatusTexts ==
    {"absent", "", " ", "Succeeded", "Running", " Running ", "Queuing", "EnvPreparing",
     "Failed", "Stopped", "running", "Unknown"}

EventTexts == {"", "e1"}

\* str.strip on the texts above
Strip(text) ==
    IF text = " " THEN "" ELSE IF text = " Running " THEN "Running" ELSE text

\* fields.get(key, ""): the value _parse_content_fields stored for the line
FieldGet(text) == IF text = "absent" THEN "" ELSE Strip(text)

\* a _map_status that reports the finished tasks as resolved
map_status_resolving(task_status) ==
    IF task_status \in {"Succeeded", "Failed", "Stopped"} THEN "resolved"
    ELSE IF task_status \in {"Running", "Queuing", "EnvPreparing", ""} THEN "ignored"
    ELSE "firing"

\* AliyunSource._map_status
map_status(task_status) ==
    IF task_status \in {"Succeeded", "Running", "Queuing", "EnvPreparing", ""} THEN "ignored"
    ELSE "firing"

\* AliyunSource._map_severity
map_severity(task_status) ==
    IF task_status = "Failed" THEN "critical"
    ELSE IF task_status = "Stopped" THEN "warning"
    ELSE IF task_status \in {"Succeeded", "Running", "Queuing", "EnvPreparing"} THEN "info"
    ELSE "warning"

\* AliyunSource.parse: the alert group with its single alert
parse(payload) ==
    LET task_status == FieldGet(payload.task_status)
        alert_status == map_status(task_status)
        alert == [status |-> alert_status,
                  severity |-> map_severity(task_status),
                  labels |-> IF task_status # "" THEN {<<"task_status", task_status>>} ELSE {},
                  annotations |-> IF FieldGet(payload.event) # ""
                                  THEN {<<"event", FieldGet(payload.event)>>} ELSE {},
                  ends_at |-> IF alert_status = "resolved" THEN now ELSE NULL]
    IN  [status |-> alert_status, alerts |-> <<alert>>]

InitAliyun ==
    /\ InitNoCall
    /\ \E task_status \in TaskStatusTexts, event \in EventTexts :
          call = [fn |-> "parse",
                  payload |-> [task_status |-> task_status, event |-> event],
                  status |-> "called", result |-> <<>>]

parse_returns ==
    /\ call.fn = "parse" /\ call.status = "called"
    /\ call' = [call EXCEPT !.status = "returned", !.result = <<parse(call.payload)>>]
    /\ OnlyCall

NextAliyun == parse_returns

SpecAliyun == InitAliyun /\ [][NextAliyun]_vars

\* C26: Aliyun status mapping.  The group parse returns has one alert; the
\* status of both is "ignored" when the task status of the payload is
\* Succeeded, Running, Queuing, EnvPreparing, empty or missing and "firing"
\* for every other task status; it is never "resolved" and ends_at is None.
C26_AliyunStatusMapping ==
    (call.fn = "parse" /\ call.status = "returned") =>
        LET group == call.result[1]
            text == call.payload.task_status
            quiet == {"Succeeded", "Running", " Running ", "Queuing", "EnvPreparing",
                      "", " ", "absent"}
        IN  /\ Len(group.alerts) = 1
            /\ group.alerts[1].status = group.status
            /\ text \in quiet => group.status = "ignored"
            /\ text \notin quiet => group.status = "firing"
            /\ group.status # "resolved"
            /\ group.alerts[1].ends_at = NULL

\* a payload of a failed task was parsed into a firing critical alert
C26_Witness ==
    /\ call.fn = "parse" /\ call.status = "returned"
    /\ call.payload.task_status = "Failed"
    /\ call.result[1].status = "firing"
    /\ call.result[1].alerts[1].severity = "critical"

(***************************************************************************)
(* Specification: the token check of the acknowledgement gateway           *)
(* (api/ack.py, ticket.ack_token != token) on two requests for the same    *)
(* ticket, with the number of characters each comparison looks at          *)
(***************************************************************************)
TokenLen == 3

Chars == {"a", "b"}

\* the ack_token of a ticket
AckTokens == [1..TokenLen -> Chars]

\* the token of a request: of the length of an ack_token, or shorter
TokenArguments == AckTokens \cup [1..(TokenLen - 1) -> Chars]

\* the number of leading characters in which x and y agree
RECURSIVE MatchingPrefix(_, _)
MatchingPrefix(x, y) ==
    IF x = <<>> \/ y = <<>> \/ Head(x) # Head(y) THEN 0
    ELSE 1 + MatchingPrefix(Tail(x), Tail(y))

\* how the runtime compares two strings of the same length: it stops at the
\* first difference, or looks at all the characters; the language leaves it
\* to the build
CompareModes == {"early_exit", "whole"}

\* the number of characters x != y looks at: none when the lengths differ
CompareCost(mode, x, y) ==
    IF Len(x) # Len(y) THEN 0
    ELSE IF x = y \/ mode = "whole" THEN Len(x)
    ELSE MatchingPrefix(x, y) + 1

InitTokenCheck ==
    /\ InitNoCall
    /\ \E mode \in CompareModes, ack_token \in AckTokens,
          token_a \in TokenArguments, token_b \in TokenArguments :
          call = [fn |-> "token_check", mode |-> mode, ack_token |-> ack_token,
                  token_a |-> token_a, token_b |-> token_b,
                  status |-> "called", rejected_a |-> FALSE, rejected_b |-> FALSE,
                  cost_a |-> 0, cost_b |-> 0]

\* both requests are checked against the ack_token
token_check ==
    /\ call.fn = "token_check" /\ call.status = "called"
    /\ call' = [call EXCEPT
            !.status = "returned",
            !.rejected_a = (call.ack_token # call.token_a),
            !.rejected_b = (call.ack_token # call.token_b),
            !.cost_a = CompareCost(call.mode, call.ack_token, call.token_a),
            !.cost_b = CompareCost(call.mode, call.ack_token, call.token_b)]
    /\ OnlyCall

NextTokenCheck == token_check

SpecTokenCheck == InitTokenCheck /\ [][NextTokenCheck]_vars

\* C27: constant-time token check.  Two requests that are both rejected for
\* a wrong token of the full length cost the comparison the same number of
\* characters, whatever prefix of each token agrees with the ack_token.
C27_ConstantTimeTokenCheck ==
    (call.fn = "token_check" /\ call.status = "returned") =>
        ((call.rejected_a /\ call.rejected_b
            /\ Len(call.token_a) = TokenLen /\ Len(call.token_b) = TokenLen)
         => call.cost_a = call.cost_b)

(***************************************************************************)
(* Specification: the decision of _process_ticket.  The intake of critical *)
(* alerts, the scheduler and the deletion of groups, on projects with one  *)
(* or two groups and groups whose repeat interval may exceed the timeout   *)
(***************************************************************************)
TableMaxRequests == 2

\* NotificationGroup.repeat_interval values of the groups (the forms store
\* None for 0)
TableRepeatIntervals == {NULL, 1, 2}

InitTable ==
    /\ now = 0
    /\ projects \in {f \in [Projects -> [id : Projects, namespace_id : {"ns1"},
                                           is_active : {TRUE}, enabled : {TRUE},
                                           timeout_minutes : Timeouts,
                                           notification_group_ids : {<<1>>, <<1, 2>>},
                                           notify_on_ack : {TRUE},
                                           silenced_until : {NULL}]] :
                        \A p \in Projects : f[p].id = p}
    /\ groups \in {g \in [Groups -> [exists : {TRUE}, name : {"g1", "g2"},
                                      repeat_interval : TableRepeatIntervals]] :
                        \A i \in Groups : g[i].name = GroupName(i)}
    /\ namespaces = InitNamespaces /\ issued = InitIds
    /\ tickets = <<>>
    /\ reqs = [s \in InitialSlots |-> NoReq]
    /\ tick = IdleTick
    /\ resp = NoResp
    /\ sent = 0
    /\ nreq = 0
    /\ ticked = FALSE
    /\ race = <<>>
    /\ proc = "up"
    /\ call = NoCall

NextTable ==
    \/ now < MaxTime /\ Console(Advance)
    \/ /\ nreq < TableMaxRequests
       /\ \E s \in Slots, pid \in Projects :
            /\ Room("firing", MaxTickets)
            /\ Console(receive_webhook(s, "ns1", pid, "json", "firing", "critical"))
    \/ \E s \in Slots : Console(receive_webhook_project(s))
    \/ \E s \in Slots : Console(receive_webhook_insert(s))
    \/ \E s \in Slots : Console(receive_webhook_first_group(s))
    \/ \E s \in Slots : Console(receive_webhook_notify_project(s))
    \/ \E s \in Slots : Console(receive_webhook_notify_group(s))
    \/ \E s \in Slots, outcome \in DispatchOutcomes :
            Console(receive_webhook_notify(s, outcome))
    \/ \E s \in Slots : Console(receive_webhook_notify_save(s))
    \/ Console(check_and_escalate_tickets)
    \/ Console(check_project_tickets)
    \/ Console(check_and_escalate_tickets_done)
    \/ Console(process_ticket_no_action)
    \/ Console(process_ticket_max_level)
    \/ Console(process_ticket_max_level_save)
    \/ Console(process_ticket_next_level)
    \/ Console(process_ticket_next_group)
    \/ Console(process_ticket_repeat)
    \/ \E outcome \in DispatchOutcomes \ {"no_channel"} :
            Console(repeat_notification(outcome))
    \/ Console(repeat_notification_save)
    \/ \E outcome \in DispatchOutcomes \ {"no_channel"} :
            Console(escalate_ticket(outcome))
    \/ Console(escalate_ticket_save)
    \/ /\ nreq < TableMaxRequests
       /\ \E s \in Slots, group_id \in Groups : Console(delete_group(s, group_id))
    \/ \E s \in Slots : Console(delete_group_delete(s))

SpecTable == InitTable /\ [][NextTable]_vars

\* the row of the decision table for the loaded ticket e, R being the repeat
\* interval of the current group as the lookup finds it
TableRow(e) ==
    LET ids == tick.project[1].notification_group_ids
        level == e.doc.escalation_level
        D == tick.now - (IF e.doc.last_notified_at # NULL
                         THEN e.doc.last_notified_at ELSE e.doc.created_at)
        T == tick.project[1].timeout_minutes
        R == groups[ids[level]].repeat_interval
        prior == \E i \in 1..Len(e.doc.events) :
                     e.doc.events[i].type = EV_MAX_LEVEL_REACHED
    IN  IF R # NULL /\ D < T /\ D >= R THEN "repeat"
        ELSE IF D < T THEN "none"
        ELSE IF level < tick.max_level THEN "escalate"
        ELSE IF R # NULL /\ D >= R THEN "repeat"
        ELSE IF R = NULL /\ ~prior THEN "max_level"
        ELSE "none"

\* the tick is about to look up the current group of a critical open ticket,
\* and the group is stored
AtCurrentGroup ==
    /\ Todo # <<>>
    /\ can_escalate(Head(Todo).doc)
    /\ GroupGet(tick.project[1].notification_group_ids[Head(Todo).doc.escalation_level])
          # <<>>

\* what the step of the lookup of the current group does, row by row: a
\* repeat goes on to _repeat_notification with the loaded ticket, an
\* escalation to the lookup of the next group, a record to its save, and
\* nothing leaves the store alone and goes on to the next ticket
TableStep ==
    (AtCurrentGroup /\ tick' # tick) =>
        LET e == Head(Todo)
            row == TableRow(e)
        IN  /\ row = "repeat" => (tick'.pc = "repeat_send" /\ tick'.cur = <<e>>)
            /\ row = "escalate" => (tick'.pc = "next_group" /\ tick'.cur = <<e>>)
            /\ row = "max_level" => (tick'.pc = "max_level_save" /\ tick'.cur = <<e>>)
            /\ row = "none" => (tick'.pc = "tickets" /\ tick'.tickets = Tail(Todo))
            /\ tickets' = tickets /\ sent' = 0

\* the group after the current one of the ticket the tick escalates
NextGroup ==
    GroupGet(tick.project[1].notification_group_ids[tick.cur[1].doc.escalation_level + 1])

\* C28 (as stated): decision table.  On a critical open ticket whose current
\* group is stored, the action of _process_ticket is the first matching row
\* of: repeat if R set, D < T and D >= R; nothing if D < T; escalate if
\* D >= T and level < number of groups; repeat if D >= T at max level, R set
\* and D >= R; MAX_LEVEL_REACHED if D >= T at max level, R unset and no such
\* event yet; otherwise nothing.
C28_DecisionTableAsStated ==
    [][/\ TableStep
       /\ (tick.pc = "next_group" /\ tick' # tick) =>
             (tick'.pc = "escalate_send" /\ tick'.cur = tick.cur)]_vars

\* C28 (amended): decision table.  The same, except that the escalate row
\* also needs the next group to be stored: when D >= T, level < number of
\* groups and the next group was deleted, _process_ticket does nothing and
\* the tick goes on to the next ticket.
C28_DecisionTable ==
    [][/\ TableStep
       /\ (tick.pc = "next_group" /\ tick' # tick) =>
             IF NextGroup # <<>>
             THEN tick'.pc = "escalate_send" /\ tick'.cur = tick.cur
             ELSE tick'.pc = "tickets" /\ tick'.cur = <<>> /\ tickets' = tickets
                    /\ sent' = 0]_vars

\* _process_ticket goes on to escalate a critical ticket below the last
\* level whose current group has a repeat interval that has passed as well
C28_Witness ==
    /\ tick.pc = "escalate_send"
    /\ tick.cur[1].doc.escalation_level = 1
    /\ tick.cur[1].doc.last_notified_at = 0 /\ tick.now = 2
    /\ tick.project[1].timeout_minutes = 2
    /\ groups[1].repeat_interval = 1

(***************************************************************************)
(* The escalation step                                                     *)
(***************************************************************************)

\* the tick is between the dispatch of _escalate_ticket and its save
Escalating == tick.pc = "escalate_save"

\* C29: escalation step.  The ticket _escalate_ticket hands to the dispatcher
\* is the loaded ticket with status escalated and the level raised by exactly
\* 1, and the dispatch writes nothing; while the dispatch is out the stored
\* ticket is still at the old level; the save stores the dispatched ticket
\* with exactly one more event, ESCALATED at the new level, last_notified_at
\* = now and notification_count raised by exactly 1.
C29_EscalationStep ==
    [][/\ (tick.pc = "next_group" /\ tick'.pc = "escalate_send") =>
            LET gid == tick.project[1].notification_group_ids[tick.cur[1].doc.escalation_level + 1]
            IN  /\ tick'.cur = tick.cur
                /\ tick'.group_name = groups[gid].name
                /\ sent' = 0
                /\ tickets' = tickets
       /\ (~Escalating /\ Escalating') =>
            LET e == tick.cur[1]
                d == tick'.cur[1].doc
            IN  /\ tick.pc = "escalate_send"
                /\ tick'.group_name = tick.group_name
                /\ tick'.cur[1].id = e.id
                /\ d.status = ESCALATED
                /\ d.escalation_level = e.doc.escalation_level + 1
                /\ d.events = e.doc.events
                /\ d.notification_count = e.doc.notification_count
                /\ sent' = 1
                /\ tickets' = tickets
       /\ Escalating' =>
            tickets'[tick'.cur[1].id].escalation_level
                = tick'.cur[1].doc.escalation_level - 1
       /\ (Escalating /\ tick'.pc = "tickets") =>
            LET d == tick.cur[1].doc
                t == tickets'[tick.cur[1].id]
                n == Len(d.events)
            IN  /\ t.status = ESCALATED
                /\ t.escalation_level = d.escalation_level
                /\ Len(t.events) = n + 1
                /\ SubSeq(t.events, 1, n) = d.events
                /\ t.events[n + 1].type = EV_ESCALATED
                /\ t.events[n + 1].level = t.escalation_level
                /\ t.last_notified_at = now
                /\ t.notification_count = d.notification_count + 1
                /\ \A j \in TicketIds \ {tick.cur[1].id} : tickets'[j] = tickets[j]
      ]_vars

\* an escalation was saved: the ticket is stored escalated at level 2 with
\* its second notification counted while the tick goes on
C29_Witness ==
    /\ tick.pc = "tickets"
    /\ \E i \in TicketIds :
          /\ tickets[i].status = ESCALATED
          /\ tickets[i].escalation_level = 2
          /\ tickets[i].notification_count = 2
          /\ tickets[i].last_notified_at = now
          /\ HasEscalatedTo(tickets[i], 2)

(***************************************************************************)
(* The repeat step                                                         *)
(***************************************************************************)

\* the tick is between the dispatch of _repeat_notification and its save
Repeating == tick.pc = "repeat_save"

\* C30: repeat step.  _repeat_notification dispatches the loaded ticket as it
\* is and writes nothing before its save; the save stores the loaded ticket
\* with status and escalation_level unchanged and exactly one more event,
\* REPEATED at the current level with the name of the current group as the
\* tick looked it up and success = (some channel succeeded), last_notified_at = now and
\* notification_count raised by exactly 1; no other ticket changes.
C30_RepeatStep ==
    [][/\ (tick.pc = "tickets" /\ tick'.pc = "repeat_send") =>
            LET gid == tick.project[1].notification_group_ids[Head(Todo).doc.escalation_level]
            IN  /\ tick'.cur[1] = Head(Todo)
                /\ tick'.group_name = groups[gid].name
                /\ sent' = 0
                /\ tickets' = tickets
       /\ (~Repeating /\ Repeating') =>
                /\ tick.pc = "repeat_send"
                /\ tick'.cur = tick.cur
                /\ tick'.group_name = tick.group_name
                /\ tick'.results \in DispatchOutcomes
                /\ sent' = 1
                /\ tickets' = tickets
       /\ (Repeating /\ tick'.pc = "tickets") =>
            LET d == tick.cur[1].doc
                t == tickets'[tick.cur[1].id]
                n == Len(d.events)
            IN  /\ t.status = d.status
                /\ t.escalation_level = d.escalation_level
                /\ Len(t.events) = n + 1
                /\ SubSeq(t.events, 1, n) = d.events
                /\ t.events[n + 1].type = EV_REPEATED
                /\ t.events[n + 1].level = d.escalation_level
                /\ t.events[n + 1].group_name = tick.group_name
                /\ t.events[n + 1].success = SuccessOf(tick.results = "some_ok")
                /\ t.last_notified_at = now
                /\ t.notification_count = d.notification_count + 1
                /\ \A j \in TicketIds \ {tick.cur[1].id} : tickets'[j] = tickets[j]
      ]_vars

\* a repeat was saved: the ticket is stored pending at level 1 with its
\* second notification counted and a REPEATED event at the end of its timeline
C30_Witness ==
    /\ tick.pc = "tickets"
    /\ \E i \in TicketIds :
          /\ tickets[i].status = PENDING
          /\ tickets[i].escalation_level = 1
          /\ tickets[i].notification_count = 2
          /\ tickets[i].last_notified_at = now
          /\ tickets[i].events[Len(tickets[i].events)].type = EV_REPEATED
          /\ tickets[i].events[Len(tickets[i].events)].success = "False"

(***************************************************************************)
(* Specification: the intake adapter on a store that holds tickets of two  *)
(* projects in any status, for a project that may be silenced              *)
(***************************************************************************)
AdapterMaxTickets == 3

AdapterMaxRequests == 2

\* the project_id of the stored tickets: the project of the model and another one
TicketProjects == {1, 2}

\* a stored ticket of a project
AdapterTicket(id, pid, status) ==
    [StoredTicket(status, 1) EXCEPT !.project_id = pid, !.ack_token = TokenOf(id)]

InitAdapter ==
    /\ now = StoredNow
    /\ projects \in {f \in [Projects -> [id : Projects, namespace_id : {"ns1"},
                                           is_active : {TRUE}, enabled : {TRUE},
                                           timeout_minutes : {1},
                                           notification_group_ids : GroupLists,
                                           notify_on_ack : {TRUE},
                                           silenced_until : {NULL, StoredNow + 1}]] :
                        \A p \in Projects : f[p].id = p}
    /\ groups \in {g \in [Groups -> [exists : BOOLEAN, name : {"g1", "g2"},
                                      repeat_interval : {NULL}]] :
                        \A i \in Groups : g[i].name = GroupName(i)}
    /\ namespaces = InitNamespaces /\ issued = InitIds
    /\ \E pid1 \in TicketProjects, pid2 \in TicketProjects,
          status1 \in StoredStatuses, status2 \in StoredStatuses :
          tickets = <<AdapterTicket(1, pid1, status1), AdapterTicket(2, pid2, status2)>>
    /\ reqs = [s \in InitialSlots |-> NoReq]
    /\ tick = IdleTick
    /\ resp = NoResp
    /\ sent = 0
    /\ nreq = 0
    /\ ticked = FALSE
    /\ race = <<>>
    /\ proc = "up"
    /\ call = NoCall

NextAdapter ==
    \/ now < StoredMaxTime /\ Advance /\ Observe /\ UNCHANGED <<ticked, proc, call>>
    \/ /\ nreq < AdapterMaxRequests
       /\ \E s \in Slots, pid \in Projects, status \in WebhookStatuses, severity \in Severities :
            /\ Room(status, AdapterMaxTickets)
            /\ receive_webhook(s, "ns1", pid, "json", status, severity)
       /\ Observe /\ UNCHANGED <<ticked, proc, call>>
    \/ (\E s \in Slots : receive_webhook_project(s))
       /\ Observe /\ UNCHANGED <<ticked, proc, call>>
    \/ (\E s \in Slots : receive_webhook_find_pending(s))
       /\ Observe /\ UNCHANGED <<ticked, proc, call>>
    \/ (\E s \in Slots : receive_webhook_resolve(s))
       /\ Observe /\ UNCHANGED <<ticked, proc, call>>
    \/ (\E s \in Slots : receive_webhook_insert(s))
       /\ Observe /\ UNCHANGED <<ticked, proc, call>>
    \/ (\E s \in Slots : receive_webhook_first_group(s))
       /\ Observe /\ UNCHANGED <<ticked, proc, call>>
    \/ (\E s \in Slots : receive_webhook_notify_project(s))
       /\ Observe /\ UNCHANGED <<ticked, proc, call>>
    \/ (\E s \in Slots : receive_webhook_notify_group(s))
       /\ Observe /\ UNCHANGED <<ticked, proc, call>>
    \/ (\E s \in Slots, outcome \in SendOutcomes : receive_webhook_notify(s, outcome))
       /\ Observe /\ UNCHANGED <<ticked, proc, call>>
    \/ (\E s \in Slots : receive_webhook_notify_save(s))
       /\ Observe /\ UNCHANGED <<ticked, proc, call>>
    \/ /\ nreq < AdapterMaxRequests
       /\ \E s \in Slots, project_id \in Projects, duration \in SilenceDurations :
            silence_project(s, project_id, duration)
       /\ Observe /\ UNCHANGED <<ticked, proc, call>>
    \/ (\E s \in Slots : silence_project_save(s)) /\ Observe /\ UNCHANGED <<ticked, proc, call>>
    \/ /\ nreq < AdapterMaxRequests
       /\ \E s \in Slots, project_id \in Projects : unsilence_project(s, project_id)
       /\ Observe /\ UNCHANGED <<ticked, proc, call>>
    \/ (\E s \in Slots : unsilence_project_save(s)) /\ Observe /\ UNCHANGED <<ticked, proc, call>>
    \/ /\ nreq < AdapterMaxRequests
       /\ \E s \in Slots, group_id \in Groups, name \in GroupNames,
             repeat_interval \in RepeatFields :
            Console(update_group(s, group_id, name, repeat_interval))
    \/ \E s \in Slots : Console(update_group_find(s))
    \/ \E s \in Slots : Console(update_group_save(s))
    \/ /\ nreq < AdapterMaxRequests
       /\ \E s \in Slots, group_id \in Groups : Console(delete_group(s, group_id))
    \/ \E s \in Slots : Console(delete_group_delete(s))
    \/ /\ nreq < AdapterMaxRequests
       /\ \E s \in Slots, project_id \in Projects, notification_group_ids \in GroupLists :
            Console(update_project(s, "ns1", project_id,
                                   GroupsForm(project_id, notification_group_ids)))
    \/ \E s \in Slots : Console(update_project_get(s))
    \/ \E s \in Slots : Console(update_project_save(s))
    \/ /\ nreq < AdapterMaxRequests
       /\ \E s \in Slots, project_id \in Projects : Console(delete_project(s, project_id))
    \/ \E s \in Slots : Console(delete_project_delete(s))

SpecAdapter == InitAdapter /\ [][NextAdapter]_vars

\* the request in slot s has parsed an event that is not a resolve and goes on
Inserting(s) ==
    /\ reqs[s].kind = "webhook" /\ reqs[s].pc = "parsed"
    /\ reqs[s].status # "resolved"
    /\ reqs'[s] # reqs[s]

\* the request in slot s has inserted its ticket and goes on: it looks up
\* the name of the first group, or is in notify_ticket(ticket, 1)
Notifying(s) ==
    /\ reqs[s].kind = "webhook" /\ reqs[s].pc \in {"inserted", "named", "project", "group"}
    /\ reqs'[s] # reqs[s]

\* the order of the steps of the request after the insert
NotifyRank(pc) ==
    IF pc = "inserted" THEN 1
    ELSE IF pc = "named" THEN 2
    ELSE IF pc = "project" THEN 3
    ELSE IF pc = "group" THEN 4
    ELSE 5

\* notify_ticket(ticket, 1) of the request in slot s has returned and the
\* request goes on
SavingNotified(s) ==
    /\ reqs[s].kind = "webhook" /\ reqs[s].pc = "notified"
    /\ reqs'[s] # reqs[s]

\* C31: ticket creation.  The intake of an event that is not a resolve, for
\* an active project, inserts exactly one ticket: pending, level 1, first
\* event CREATED.  If the project (as the request loaded it) is silenced the
\* ticket is stored with a NOTIFIED_SILENCED event, notification_count 0 and
\* last_notified_at unset, nothing is dispatched and the request ends.
\* Otherwise the ticket is inserted with its CREATED event only, then
\* notify_ticket(ticket, 1) is called once (the request passes once through
\* its load of the project and its lookup of the group, with one dispatch,
\* when the group is found), no further ticket is created and the ticket is
\* saved with a NOTIFIED event at level 1, last_notified_at = now and
\* notification_count = 1.
C31_IntakeCreatesTicket ==
    [][\A s \in Slots :
        /\ Inserting(s) =>
            LET n == Len(tickets)
                t == tickets'[n + 1]
            IN  /\ reqs[s].pr[1].is_active
                /\ Len(tickets') = n + 1
                /\ SubSeq(tickets', 1, n) = tickets
                /\ t.project_id = reqs[s].pr[1].id
                /\ t.status = PENDING
                /\ t.escalation_level = 1
                /\ t.events[1].type = EV_CREATED
                /\ t.notification_count = 0
                /\ t.last_notified_at = NULL
                /\ sent' = 0
                /\ IF is_silenced(reqs[s].pr[1])
                   THEN /\ Len(t.events) = 2
                        /\ t.events[2].type = EV_NOTIFIED_SILENCED
                        /\ reqs'[s] = NoReq
                        /\ resp'.status = "silenced"
                   ELSE /\ Len(t.events) = 1
                        /\ reqs'[s].pc = "inserted"
                        /\ reqs'[s].tid = n + 1
        /\ Notifying(s) =>
                /\ tickets' = tickets
                /\ reqs'[s].kind = "webhook" /\ reqs'[s].tid = reqs[s].tid
                /\ reqs'[s].pc \in {"named", "project", "group", "notified"}
                /\ NotifyRank(reqs'[s].pc) > NotifyRank(reqs[s].pc)
                /\ sent' = (IF reqs[s].pc = "group" THEN 1 ELSE 0)
                /\ reqs[s].pc = "named" =>
                      reqs'[s].target = notify_ticket_project(reqs[s].tk[1], 1)
        /\ SavingNotified(s) =>
            LET t == tickets'[reqs[s].tid] IN
                /\ Len(tickets') = Len(tickets)
                /\ \A j \in TicketIds \ {reqs[s].tid} : tickets'[j] = tickets[j]
                /\ t.status = PENDING
                /\ t.escalation_level = 1
                /\ Len(t.events) = 2
                /\ t.events[1].type = EV_CREATED
                /\ t.events[2].type = EV_NOTIFIED
                /\ t.events[2].level = 1
                /\ t.last_notified_at = now
                /\ t.notification_count = 1
                /\ sent' = 0
                /\ reqs'[s] = NoReq
                /\ resp'.status = "ok"
      ]_vars

\* the request in slot s takes a step of the auto-close
Closing(s) ==
    /\ reqs[s].kind = "webhook"
    /\ reqs[s].status = "resolved"
    /\ reqs[s].pc \in {"parsed", "resolving"}
    /\ reqs'[s] # reqs[s]

\* C32: auto-close.  Every step of the handling of a resolved event leaves
\* the tickets of other projects and the tickets whose status is not pending
\* as they are, creates no ticket and dispatches nothing; a pending ticket of
\* the project is changed only to resolved, with resolved_at = now and
\* exactly one more event, RESOLVED; and when the request answers, no ticket
\* of the project is pending any more.
C32_AutoClose ==
    [][\A s \in Slots : Closing(s) =>
        LET pid == reqs[s].pr[1].id IN
        /\ Len(tickets') = Len(tickets)
        /\ sent' = 0
        /\ \A j \in TicketIds :
              \/ tickets'[j] = tickets[j]
              \/ /\ tickets[j].project_id = pid
                 /\ tickets[j].status = PENDING
                 /\ tickets'[j] = [tickets[j] EXCEPT
                        !.status = RESOLVED, !.resolved_at = now, !.updated_at = now,
                        !.events = Append(@, TicketEvent(EV_RESOLVED, now, NULL, None,
                                                         SuccessNone))]
        /\ reqs'[s] = NoReq =>
              /\ resp'.status = "resolved"
              /\ \A j \in TicketIds :
                    tickets'[j].project_id = pid => tickets'[j].status # PENDING
      ]_vars

\* an auto-close has resolved both stored tickets, which were pending, a
\* minute after the initial state, and answered
C32_Witness ==
    /\ resp.kind = "webhook" /\ resp.status = "resolved"
    /\ now = StoredNow + 1
    /\ Len(tickets) = 2
    /\ \A j \in 1..2 :
          /\ tickets[j].status = RESOLVED
          /\ tickets[j].resolved_at = now
          /\ HasEvent(tickets[j], EV_NOTIFIED)
          /\ tickets[j].events[Len(tickets[j].events)].type = EV_RESOLVED
          /\ tickets[j].events[Len(tickets[j].events)].timestamp = now
          /\ tickets[j].updated_at = now

(***************************************************************************)
(* Specification: the scheduler over a store that holds tickets of two     *)
(* projects in any status, for a project whose escalation may be disabled  *)
(* and which may be inactive, with link acknowledgements arriving          *)
(***************************************************************************)
SweepMaxRequests == 1

InitSweep ==
    /\ now = StoredNow
    /\ projects \in {f \in [Projects -> [id : Projects, namespace_id : {"ns1"},
                                           is_active : BOOLEAN, enabled : BOOLEAN,
                                           timeout_minutes : {1},
                                           notification_group_ids : {<<1>>, <<1, 2>>},
                                           notify_on_ack : {TRUE},
                                           silenced_until : {NULL}]] :
                        \A p \in Projects : f[p].id = p}
    /\ groups \in {g \in [Groups -> GroupConfigs] : \A i \in Groups : g[i].name = GroupName(i)}
    /\ namespaces = InitNamespaces /\ issued = InitIds
    /\ \E pid1 \in TicketProjects, pid2 \in TicketProjects,
          status1 \in StoredStatuses, status2 \in StoredStatuses :
          tickets = <<AdapterTicket(1, pid1, status1), AdapterTicket(2, pid2, status2)>>
    /\ reqs = [s \in InitialSlots |-> NoReq]
    /\ tick = IdleTick
    /\ resp = NoResp
    /\ sent = 0
    /\ nreq = 0
    /\ ticked = FALSE
    /\ race = <<>>
    /\ proc = "up"
    /\ call = NoCall

NextSweep ==
    \/ now < StoredMaxTime /\ Advance /\ Observe /\ UNCHANGED <<ticked, proc, call>>
    \/ check_and_escalate_tickets /\ Observe /\ UNCHANGED <<ticked, proc, call>>
    \/ check_project_tickets /\ Observe /\ UNCHANGED <<ticked, proc, call>>
    \/ check_and_escalate_tickets_done /\ Observe /\ UNCHANGED <<ticked, proc, call>>
    \/ process_ticket_no_action /\ Observe /\ UNCHANGED <<ticked, proc, call>>
    \/ process_ticket_max_level /\ Observe /\ UNCHANGED <<ticked, proc, call>>
    \/ process_ticket_max_level_save /\ Observe /\ UNCHANGED <<ticked, proc, call>>
    \/ process_ticket_next_level /\ Observe /\ UNCHANGED <<ticked, proc, call>>
    \/ process_ticket_next_group /\ Observe /\ UNCHANGED <<ticked, proc, call>>
    \/ process_ticket_repeat /\ Observe /\ UNCHANGED <<ticked, proc, call>>
    \/ (\E outcome \in DispatchOutcomes \ {"no_channel"} : repeat_notification(outcome))
       /\ Observe /\ UNCHANGED <<ticked, proc, call>>
    \/ repeat_notification_save /\ Observe /\ UNCHANGED <<ticked, proc, call>>
    \/ (\E outcome \in DispatchOutcomes \ {"no_channel"} : escalate_ticket(outcome))
       /\ Observe /\ UNCHANGED <<ticked, proc, call>>
    \/ escalate_ticket_save /\ Observe /\ UNCHANGED <<ticked, proc, call>>
    \/ /\ nreq < SweepMaxRequests
       /\ \E s \in Slots, ticket_id \in 1..2 :
            acknowledge_ticket_via_link(s, ticket_id, TokenOf(ticket_id), "json")
       /\ Observe /\ UNCHANGED <<ticked, proc, call>>
    \/ (\E s \in Slots : acknowledge_ticket_via_link_save(s))
       /\ Observe /\ UNCHANGED <<ticked, proc, call>>
    \/ (\E s \in Slots : acknowledge_ticket_via_link_notify_project(s))
       /\ Observe /\ UNCHANGED <<ticked, proc, call>>
    \/ (\E s \in Slots : acknowledge_ticket_via_link_notify_group(s))
       /\ Observe /\ UNCHANGED <<ticked, proc, call>>
    \/ (\E s \in Slots, outcome \in AckBackOutcomes : acknowledge_ticket_via_link_notify(s, outcome))
       /\ Observe /\ UNCHANGED <<ticked, proc, call>>
    \/ /\ nreq < SweepMaxRequests
       /\ \E s \in Slots, project_id \in DOMAIN projects, is_active \in BOOLEAN,
             enabled \in BOOLEAN :
            Console(update_project(s, "ns1", project_id,
                [GroupsForm(project_id, projects[project_id].notification_group_ids)
                 EXCEPT !.is_active = is_active, !.enabled = enabled]))
    \/ \E s \in Slots : Console(update_project_get(s))
    \/ \E s \in Slots : Console(update_project_save(s))
    \/ /\ nreq < SweepMaxRequests
       /\ \E s \in Slots, project_id \in Projects : Console(delete_project(s, project_id))
    \/ \E s \in Slots : Console(delete_project_delete(s))
    \/ /\ nreq < SweepMaxRequests
       /\ \E s \in Slots, group_id \in Groups : Console(delete_group(s, group_id))
    \/ \E s \in Slots : Console(delete_group_delete(s))

SpecSweep == InitSweep /\ [][NextSweep]_vars

\* the elements of a sequence
Range(seq) == {seq[k] : k \in 1..Len(seq)}

\* a project document as the tick's query returns it
LoadedEscalating(p) == p.enabled /\ p.is_active

\* a ticket entry as the tick's query for the project it is at returns it
LoadedOpen(e, project) ==
    /\ e.doc.status \in {PENDING, ESCALATED}
    /\ e.doc.project_id = project.id

\* C33: load filter.  The projects a tick goes through are the ones it
\* loaded with escalation enabled and active; the tickets it goes through are
\* the ones it loaded for such a project with status pending or escalated;
\* the ticket it dispatches for is one of these; and a step of the tick
\* changes a stored ticket only if it is one of these.  So a ticket of a
\* project loaded disabled or inactive, or a ticket loaded acknowledged,
\* resolved or ignored, is never written by the scheduler.
C33_SchedulerWritesOnlyLoaded ==
    [][/\ \A p \in Range(tick'.projects) :
            \/ p \in Range(tick.projects)
            \/ p = projects[p.id] /\ LoadedEscalating(p)
       /\ \A p \in Range(tick'.project) :
            p \in Range(tick.project) \cup Range(tick.projects)
       /\ \A e \in Range(tick'.tickets) :
            \/ e \in Range(tick.tickets)
            \/ /\ e.doc = tickets[e.id]
               /\ LoadedOpen(e, tick'.project[1])
               /\ LoadedEscalating(tick'.project[1])
       /\ \A e \in Range(tick'.cur) :
            \/ e \in Range(tick.cur)
            \/ \E l \in Range(tick.tickets) \cup Range(tick.cur) : l.id = e.id
       /\ tick' # tick =>
            \A i \in TicketIds :
                tickets'[i] # tickets[i] =>
                    /\ tick.project # <<>>
                    /\ LoadedEscalating(tick.project[1])
                    /\ \E l \in Range(tick.tickets) \cup Range(tick.cur) :
                          /\ l.id = i
                          /\ l.doc.status \in {PENDING, ESCALATED}
                          /\ l.doc.project_id = tick.project[1].id
      ]_vars

\* a tick has escalated the first ticket, loaded pending, and has left the
\* second, a resolved ticket of the same project, as it was
C33_Witness ==
    /\ tick.pc = "tickets"
    /\ tickets[1].status = ESCALATED
    /\ tickets[1].last_notified_at = StoredNow
    /\ tickets[1].notification_count = 2
    /\ tickets[2] = AdapterTicket(2, 1, RESOLVED)

(***************************************************************************)
(* Specification: one call of NotificationService.notify_ticket on a       *)
(* ticket and a level, over the projects and groups a store can hold       *)
(***************************************************************************)
InitNotify ==
    /\ now = 0
    /\ projects \in {f \in [Projects -> [id : Projects, namespace_id : {"ns1"},
                                           is_active : {TRUE}, enabled : {TRUE},
                                           timeout_minutes : {1},
                                           notification_group_ids : GroupLists,
                                           notify_on_ack : {TRUE},
                                           silenced_until : {NULL}]] :
                        \A p \in Projects : f[p].id = p}
    /\ groups \in {g \in [Groups -> [exists : BOOLEAN, name : {"g1", "g2"},
                                      repeat_interval : {NULL}]] :
                        \A i \in Groups : g[i].name = GroupName(i)}
    /\ namespaces = InitNamespaces /\ issued = InitIds
    /\ tickets = <<>>
    /\ reqs = [s \in 1..NotifyInflight |-> NoReq]
    /\ tick = IdleTick
    /\ resp = NoResp
    /\ sent = 0
    /\ nreq = 0
    /\ ticked = FALSE
    /\ race = <<>>
    /\ proc = "up"
    /\ \E project_id \in TicketProjects, escalation_level \in 1..MaxLevel :
          call = [fn |-> "notify_ticket",
                  ticket |-> [AdapterTicket(1, project_id, PENDING)
                              EXCEPT !.last_notified_at = NULL,
                                     !.notification_count = 0,
                                     !.events = <<@[1]>>],
                  escalation_level |-> escalation_level,
                  status |-> "called", loaded |-> <<>>, target |-> <<>>,
                  found |-> <<>>, calls |-> <<>>, results |-> "empty"]

\* notify_ticket loads the project of the ticket; it returns {} when there
\* is none or the project has no group at the level
notify_ticket_loads ==
    /\ call.fn = "notify_ticket" /\ call.status = "called"
    /\ LET target == notify_ticket_project(call.ticket, call.escalation_level) IN
       call' = [call EXCEPT !.status = IF target = <<>> THEN "returned" ELSE "project",
                            !.loaded = ProjectGet(call.ticket.project_id),
                            !.target = target]
    /\ OnlyCall

\* notify_ticket looks the group up and returns {} when it is gone
notify_ticket_group ==
    /\ call.fn = "notify_ticket" /\ call.status = "project"
    /\ LET group == GroupGet(call.target[1]) IN
       call' = [call EXCEPT !.status = IF group = <<>> THEN "returned" ELSE "group",
                            !.found = group]
    /\ OnlyCall

\* send_to_group is called on the group that was found, with the template
\* and the project and no flag; what it returns is returned, and what it
\* raises is raised
notify_ticket_returns(outcome) ==
    /\ call.fn = "notify_ticket" /\ call.status = "group"
    /\ call' = [call EXCEPT
            !.status = IF outcome = "raises" THEN "raised" ELSE "returned",
            !.calls = <<[group |-> call.found[1].name, is_escalated |-> FALSE,
                         is_repeated |-> FALSE, is_ack_notification |-> FALSE]>>,
            !.results = IF outcome \in {"no_channel", "raises"} THEN "empty" ELSE outcome]
    /\ OnlyCall

NextNotify ==
    \/ notify_ticket_loads
    \/ notify_ticket_group
    \/ \E outcome \in SendOutcomes : notify_ticket_returns(outcome)
    \/ /\ nreq < NotifyMaxRequests
       /\ \E s \in Slots, group_id \in Groups, name \in GroupNames,
             repeat_interval \in RepeatFields :
            Console(update_group(s, group_id, name, repeat_interval))
    \/ \E s \in Slots : Console(update_group_find(s))
    \/ \E s \in Slots : Console(update_group_save(s))
    \/ /\ nreq < NotifyMaxRequests /\ issued.groups < NotifyMaxGroups
       /\ NoneInFlight("new_group")
       /\ \E s \in Slots, name \in GroupNames, repeat_interval \in RepeatFields :
            Console(create_group(s, name, repeat_interval))
    \/ \E s \in Slots : Console(create_group_insert(s))
    \/ /\ nreq < NotifyMaxRequests
       /\ \E s \in Slots, group_id \in Groups : Console(delete_group(s, group_id))
    \/ \E s \in Slots : Console(delete_group_delete(s))
    \/ /\ nreq < NotifyMaxRequests
       /\ \E s \in Slots, project_id \in Projects, notification_group_ids \in GroupLists :
            Console(update_project(s, "ns1", project_id,
                                   GroupsForm(project_id, notification_group_ids)))
    \/ \E s \in Slots : Console(update_project_get(s))
    \/ \E s \in Slots : Console(update_project_save(s))
    \/ /\ nreq < NotifyMaxRequests
       /\ \E s \in Slots, project_id \in Projects : Console(delete_project(s, project_id))
    \/ \E s \in Slots : Console(delete_project_delete(s))

SpecNotify == InitNotify /\ [][NextNotify]_vars

\* the call of notify_ticket goes on
NotifyStep(from) == call.fn = "notify_ticket" /\ call.status = from /\ call' # call

\* C34: notify_ticket.  The call loads the project of the ticket and, when
\* the project has a group at position level - 1, looks that group up, while
\* the console may edit projects and groups.  A call that is over made no
\* call of send_to_group and returned the empty map when it found no
\* project, a project with no groups or with fewer groups than the level, or
\* no group at position level - 1; otherwise it made exactly one call of
\* send_to_group, on the group it found at position level - 1 (as it was
\* found), with none of the escalated, repeated and acknowledgement flags
\* set, whether that call returned or raised.
C34_NotifyTicket ==
    [][/\ NotifyStep("called") =>
            /\ call'.loaded = ProjectGet(call.ticket.project_id)
            /\ call'.status \in {"project", "returned"}
            /\ call'.calls = <<>> /\ call'.results = "empty"
       /\ NotifyStep("project") =>
            LET ids == call.loaded[1].notification_group_ids IN
            /\ call.escalation_level <= Len(ids)
            /\ call'.found = GroupGet(ids[call.escalation_level])
            /\ call'.status = (IF call'.found = <<>> THEN "returned" ELSE "group")
            /\ call'.calls = <<>> /\ call'.results = "empty"
       /\ NotifyStep("group") =>
            /\ call'.status \in {"returned", "raised"}
            /\ call'.found = call.found
            /\ call'.status = "raised" => call'.results = "empty"
       /\ (call'.fn = "notify_ticket" /\ call'.status \in {"returned", "raised"}) =>
            LET level == call'.escalation_level
                absent == \/ call'.loaded = <<>>
                          \/ Len(call'.loaded[1].notification_group_ids) = 0
                          \/ Len(call'.loaded[1].notification_group_ids) < level
                          \/ call'.found = <<>>
            IN  IF absent
                THEN /\ call'.calls = <<>> /\ call'.results = "empty"
                     /\ call'.status = "returned"
                ELSE /\ Len(call'.calls) = 1
                     /\ call'.calls[1].group = call'.found[1].name
                     /\ ~call'.calls[1].is_escalated
                     /\ ~call'.calls[1].is_repeated
                     /\ ~call'.calls[1].is_ack_notification
      ]_vars

\* notify_ticket at level 2 has sent to the second group of the project and
\* returned what the dispatch reported
C34_Witness ==
    /\ call.fn = "notify_ticket" /\ call.status = "returned"
    /\ call.escalation_level = 2
    /\ Len(call.calls) = 1
    /\ call.calls[1].group = "g2"
    /\ call.results = "all_failed"

\* the number of entries of a timeline that record a dispatch to a group
NotificationEvents(events) ==
    Cardinality({k \in 1..Len(events) :
                    events[k].type \in {EV_NOTIFIED, EV_REPEATED, EV_ESCALATED}})

\* C35: counter matches timeline.  In every reachable state the stored
\* notification_count of a ticket is the number of NOTIFIED, REPEATED and
\* ESCALATED events of its stored timeline (the other event types do not
\* count), in any interleaving of the handlers and the scheduler.
C35_CountMatchesTimeline ==
    \A i \in TicketIds :
        tickets[i].notification_count = NotificationEvents(tickets[i].events)

\* a ticket that was notified, notified again by a tick and acknowledged: two
\* notifications counted, and events in its timeline that do not count
C35_Witness ==
    \E i \in TicketIds :
        /\ tickets[i].notification_count = 2
        /\ HasEvent(tickets[i], EV_NOTIFIED)
        /\ HasEvent(tickets[i], EV_REPEATED) \/ HasEvent(tickets[i], EV_ESCALATED)
        /\ HasEvent(tickets[i], EV_ACKNOWLEDGED)
        /\ Len(tickets[i].events) = 4

\* C36: every level is notified before the ticket leaves it.  In every stored
\* timeline an ESCALATED event is preceded by a NOTIFIED event at level 1: no
\* ticket reaches level 2 without a dispatch to the first group, also when
\* the ticket was created while the project was silenced.
C36_NotifiedBeforeEscalated ==
    \A i \in TicketIds :
        \A k \in 1..Len(tickets[i].events) :
            tickets[i].events[k].type = EV_ESCALATED =>
                \E j \in 1..(k - 1) :
                    /\ tickets[i].events[j].type = EV_NOTIFIED
                    /\ tickets[i].events[j].level = 1

(***************************************************************************)
(* Specification: two acknowledgement requests in flight for one ticket    *)
(***************************************************************************)
AckInflight == 2

AckMaxRequests == 3

\* the acknowledgements that took effect so far: the handlers that went
\* through the branch that acknowledges, and the ack-back rounds that reached
\* a group
NoAcks == [fn |-> "acks", fresh |-> 0, rounds |-> 0]

InitTwoAcks ==
    /\ now = StoredNow
    /\ projects \in {f \in [Projects -> [id : Projects, namespace_id : {"ns1"},
                                           is_active : {TRUE}, enabled : {TRUE},
                                           timeout_minutes : {1},
                                           notification_group_ids : {<<1>>, <<1, 2>>},
                                           notify_on_ack : BOOLEAN,
                                           silenced_until : {NULL}]] :
                        \A p \in Projects : f[p].id = p}
    /\ groups \in {g \in [Groups -> GroupConfigs] : \A i \in Groups : g[i].name = GroupName(i)}
    /\ namespaces = InitNamespaces /\ issued = InitIds
    /\ \E status \in {PENDING, ESCALATED} : tickets = <<AdapterTicket(1, 1, status)>>
    /\ reqs = [s \in 1..AckInflight |-> NoReq]
    /\ tick = IdleTick
    /\ resp = NoResp
    /\ sent = 0
    /\ nreq = 0
    /\ ticked = FALSE
    /\ race = <<>>
    /\ proc = "up"
    /\ call = NoAcks

\* request s finished the branch that acknowledges; its ack-back round
\* reached its first group
AckTookEffect(s) ==
    call' = [call EXCEPT !.fresh = IF reqs'[s].kind = "none" THEN @ + 1 ELSE @,
                         !.rounds = IF sent' >= 1 /\ ~reqs[s].reached THEN @ + 1 ELSE @]

NextTwoAcks ==
    \/ now < StoredMaxTime /\ Advance /\ Observe /\ UNCHANGED <<ticked, proc, call>>
    \/ /\ nreq < AckMaxRequests
       /\ \E s \in Slots : acknowledge_ticket_via_link(s, 1, TokenOf(1), "json")
       /\ Observe /\ UNCHANGED <<ticked, proc, call>>
    \/ (\E s \in Slots : acknowledge_ticket_via_link_save(s))
       /\ Observe /\ UNCHANGED <<ticked, proc, call>>
    \/ (\E s \in Slots : acknowledge_ticket_via_link_notify_project(s) /\ AckTookEffect(s))
       /\ Observe /\ UNCHANGED <<ticked, proc>>
    \/ (\E s \in Slots : acknowledge_ticket_via_link_notify_group(s) /\ AckTookEffect(s))
       /\ Observe /\ UNCHANGED <<ticked, proc>>
    \/ (\E s \in Slots, outcome \in AckBackOutcomes :
            acknowledge_ticket_via_link_notify(s, outcome) /\ AckTookEffect(s))
       /\ Observe /\ UNCHANGED <<ticked, proc>>
    \/ /\ nreq < AckMaxRequests
       /\ \E s \in Slots : acknowledge_ticket(s, 1, "u1")
       /\ Observe /\ UNCHANGED <<ticked, proc, call>>
    \/ (\E s \in Slots : acknowledge_ticket_save(s))
       /\ Observe /\ UNCHANGED <<ticked, proc, call>>
    \/ (\E s \in Slots : acknowledge_ticket_notify_project(s) /\ AckTookEffect(s))
       /\ Observe /\ UNCHANGED <<ticked, proc>>
    \/ (\E s \in Slots : acknowledge_ticket_notify_group(s) /\ AckTookEffect(s))
       /\ Observe /\ UNCHANGED <<ticked, proc>>
    \/ (\E s \in Slots, outcome \in AckBackOutcomes :
            acknowledge_ticket_notify(s, outcome) /\ AckTookEffect(s))
       /\ Observe /\ UNCHANGED <<ticked, proc>>

SpecTwoAcks == InitTwoAcks /\ [][NextTwoAcks]_vars

\* C37: at most one acknowledgement takes effect per ticket.  Of the
\* acknowledgement requests for one pending ticket, overlapping or not, at
\* most one goes through the branch that acknowledges and answers with a
\* fresh acknowledgement, and at most one round of ack-back notifications
\* reaches a group.
C37_OneAckTakesEffect ==
    /\ call.fresh <= 1
    /\ call.rounds <= 1

\* a channel config of the call for which an adapter was invoked
Invoked(config) ==
    config.contacts = "found" /\ config.type # "slack" /\ config.address

\* C38: the result map records every adapter invocation.  When send_to_group
\* returns, its map has as many entries as adapter calls were made for the
\* group, and every adapter call that failed has left a false entry under
\* its label.
C38_ResultMapRecordsEveryCall ==
    (call.fn = "send_to_group" /\ call.status = "returned") =>
        /\ Cardinality(call.results) = call.calls
        /\ \A j \in 1..Len(call.channel_configs) :
              LET config == call.channel_configs[j] IN
              (Invoked(config) /\ ~config.delivered) =>
                  <<ChannelLabel(config), FALSE>> \in call.results

(***************************************************************************)
(* Specification: the scheduler alone on stored open tickets, every        *)
(* outcome of a dispatch                                                   *)
(***************************************************************************)
InitOutcome ==
    /\ now = StoredNow
    /\ projects \in {f \in [Projects -> [id : Projects, namespace_id : {"ns1"},
                                           is_active : {TRUE}, enabled : {TRUE},
                                           timeout_minutes : {1},
                                           notification_group_ids : {<<1>>, <<1, 2>>},
                                           notify_on_ack : {TRUE},
                                           silenced_until : {NULL}]] :
                        \A p \in Projects : f[p].id = p}
    /\ groups \in {g \in [Groups -> GroupConfigs] : \A i \in Groups : g[i].name = GroupName(i)}
    /\ namespaces = InitNamespaces /\ issued = InitIds
    /\ tickets = <<AdapterTicket(1, 1, PENDING), AdapterTicket(2, 1, PENDING)>>
    /\ reqs = [s \in InitialSlots |-> NoReq]
    /\ tick = IdleTick
    /\ resp = NoResp
    /\ sent = 0
    /\ nreq = 0
    /\ ticked = FALSE
    /\ race = <<>>
    /\ proc = "up"
    /\ call = NoCall

NextOutcome ==
    \/ now < StoredMaxTime /\ Advance /\ Observe /\ UNCHANGED <<ticked, proc, call>>
    \/ check_and_escalate_tickets /\ Observe /\ UNCHANGED <<ticked, proc, call>>
    \/ check_project_tickets /\ Observe /\ UNCHANGED <<ticked, proc, call>>
    \/ check_and_escalate_tickets_done /\ Observe /\ UNCHANGED <<ticked, proc, call>>
    \/ process_ticket_no_action /\ Observe /\ UNCHANGED <<ticked, proc, call>>
    \/ process_ticket_max_level /\ Observe /\ UNCHANGED <<ticked, proc, call>>
    \/ process_ticket_max_level_save /\ Observe /\ UNCHANGED <<ticked, proc, call>>
    \/ process_ticket_next_level /\ Observe /\ UNCHANGED <<ticked, proc, call>>
    \/ process_ticket_next_group /\ Observe /\ UNCHANGED <<ticked, proc, call>>
    \/ process_ticket_repeat /\ Observe /\ UNCHANGED <<ticked, proc, call>>
    \/ (\E outcome \in DispatchOutcomes : repeat_notification(outcome))
       /\ Observe /\ UNCHANGED <<ticked, proc, call>>
    \/ repeat_notification_save /\ Observe /\ UNCHANGED <<ticked, proc, call>>
    \/ (\E outcome \in DispatchOutcomes : escalate_ticket(outcome))
       /\ Observe /\ UNCHANGED <<ticked, proc, call>>
    \/ escalate_ticket_save /\ Observe /\ UNCHANGED <<ticked, proc, call>>
    \/ /\ nreq < OutcomeMaxRequests
       /\ \E s \in Slots, group_id \in Groups, name \in GroupNames,
             repeat_interval \in RepeatFields :
            Console(update_group(s, group_id, name, repeat_interval))
    \/ \E s \in Slots : Console(update_group_find(s))
    \/ \E s \in Slots : Console(update_group_save(s))
    \/ /\ nreq < OutcomeMaxRequests
       /\ \E s \in Slots, group_id \in Groups : Console(delete_group(s, group_id))
    \/ \E s \in Slots : Console(delete_group_delete(s))

SpecOutcome == InitOutcome /\ [][NextOutcome]_vars

\* the tick has dispatched for a ticket and is about to save it
Dispatched == tick.pc \in {"repeat_save", "escalate_save"}

\* C39: the written state does not depend on the outcome of the dispatch.
\* The save of a repeat or an escalation step writes the status and the level
\* the step had set before the dispatch, the notification count plus one and
\* the current time as last_notified_at, whatever the dispatch returned (some
\* channel succeeded, all failed, no channel reached); the one event it
\* appends has the type, level and group of the step, and only its success
\* flag follows the outcome.  The ticket written is therefore not due for a
\* repeat or an escalation again at that minute.
C39_WrittenStateIgnoresOutcome ==
    [][(Dispatched /\ tick'.pc = "tickets") =>
          LET i == tick.cur[1].id
              d == tick.cur[1].doc
              w == tickets'[i]
              n == Len(d.events)
          IN /\ tick.results \in DispatchOutcomes
             /\ w.status = d.status
             /\ w.escalation_level = d.escalation_level
             /\ w.notification_count = d.notification_count + 1
             /\ w.last_notified_at = now
             /\ Len(w.events) = n + 1
             /\ SubSeq(w.events, 1, n) = d.events
             /\ w.events[n + 1].type =
                   (IF tick.pc = "repeat_save" THEN EV_REPEATED ELSE EV_ESCALATED)
             /\ w.events[n + 1].level = d.escalation_level
             /\ w.events[n + 1].group_name = tick.group_name
             /\ w.events[n + 1].success = SuccessOf(tick.results = "some_ok")
             /\ process_ticket(w, tick.project[1], tick.max_level, now, groups)
                   \notin {"repeat", "escalate"}
      ]_vars

\* two tickets escalated at the same minute, one dispatch with a success and
\* one without: the same status, level, count and last_notified_at
C39_Witness ==
    /\ tick.pc = "tickets"
    /\ Len(tickets) = 2
    /\ \A i \in 1..2 :
          /\ tickets[i].status = ESCALATED
          /\ tickets[i].escalation_level = 2
          /\ tickets[i].notification_count = 2
          /\ tickets[i].last_notified_at = now
          /\ Len(tickets[i].events) = 3
          /\ tickets[i].events[3].type = EV_ESCALATED
    /\ tickets[1].events[3].success = "True"
    /\ tickets[2].events[3].success = "False"

(***************************************************************************)
(* Specification: one critical alert and the scheduler, ticks firing       *)
(* forever, no group with a repeat interval, nobody acknowledging or       *)
(* resolving                                                               *)
(***************************************************************************)
PathMaxTime == 3

PathMaxRequests == 1

\* the minutes an intake request may stay in flight
PathIntakeMinutes == 1

\* what the scheduler has written so far: the escalations it saved and the
\* MAX_LEVEL_REACHED events it saved
NoPath == [fn |-> "path", escalations |-> 0, max_levels |-> 0]

InitPath ==
    /\ now = 0
    /\ projects \in {f \in [Projects -> [id : Projects, namespace_id : {"ns1"},
                                           is_active : {TRUE}, enabled : {TRUE},
                                           timeout_minutes : {1},
                                           notification_group_ids : {<<1>>, <<1, 2>>},
                                           notify_on_ack : BOOLEAN,
                                           silenced_until : {NULL}]] :
                        \A p \in Projects : f[p].id = p}
    /\ groups = [i \in Groups |-> [exists |-> TRUE, name |-> GroupName(i),
                                   repeat_interval |-> NULL]]
    /\ namespaces = InitNamespaces /\ issued = InitIds
    /\ tickets = <<>>
    /\ reqs = [s \in InitialSlots |-> NoReq]
    /\ tick = IdleTick
    /\ resp = NoResp
    /\ sent = 0
    /\ nreq = 0
    /\ ticked = FALSE
    /\ race = <<>>
    /\ proc = "up"
    /\ call = NoPath

\* a request is in flight
InFlight == \E s \in Slots : reqs[s].kind # "none"

\* the clock advances: a minute passes once a tick has completed in it
PathAdvance ==
    /\ now < PathMaxTime
    /\ InFlight => now < PathIntakeMinutes
    /\ ticked /\ tick.pc = "idle"
    /\ Advance
    /\ ticked' = FALSE
    /\ Observe /\ UNCHANGED <<proc, call>>

\* the intake handler of the alert goes on
PathIntake ==
    \/ (\E s \in Slots : receive_webhook_project(s))
       /\ Observe /\ UNCHANGED <<ticked, proc, call>>
    \/ (\E s \in Slots : receive_webhook_insert(s)) /\ Observe /\ UNCHANGED <<ticked, proc, call>>
    \/ (\E s \in Slots : receive_webhook_first_group(s))
       /\ Observe /\ UNCHANGED <<ticked, proc, call>>
    \/ (\E s \in Slots : receive_webhook_notify_project(s))
       /\ Observe /\ UNCHANGED <<ticked, proc, call>>
    \/ (\E s \in Slots : receive_webhook_notify_group(s))
       /\ Observe /\ UNCHANGED <<ticked, proc, call>>
    \/ (\E s \in Slots, outcome \in DispatchOutcomes : receive_webhook_notify(s, outcome))
       /\ Observe /\ UNCHANGED <<ticked, proc, call>>
    \/ (\E s \in Slots : receive_webhook_notify_save(s))
       /\ Observe /\ UNCHANGED <<ticked, proc, call>>

\* the tick goes on; no group has a repeat interval, so it never repeats
PathTick ==
    \/ check_and_escalate_tickets /\ Observe /\ UNCHANGED <<ticked, proc, call>>
    \/ check_project_tickets /\ Observe /\ UNCHANGED <<ticked, proc, call>>
    \/ check_and_escalate_tickets_done /\ Observe /\ ticked' = TRUE /\ UNCHANGED <<proc, call>>
    \/ process_ticket_no_action /\ Observe /\ UNCHANGED <<ticked, proc, call>>
    \/ process_ticket_max_level /\ Observe /\ UNCHANGED <<ticked, proc, call>>
    \/ /\ process_ticket_max_level_save /\ Observe
       /\ call' = [call EXCEPT !.max_levels = @ + 1]
       /\ UNCHANGED <<ticked, proc>>
    \/ process_ticket_next_level /\ Observe /\ UNCHANGED <<ticked, proc, call>>
    \/ process_ticket_next_group /\ Observe /\ UNCHANGED <<ticked, proc, call>>
    \/ (\E outcome \in DispatchOutcomes : escalate_ticket(outcome))
       /\ Observe /\ UNCHANGED <<ticked, proc, call>>
    \/ /\ escalate_ticket_save /\ Observe
       /\ call' = [call EXCEPT !.escalations = @ + 1]
       /\ UNCHANGED <<ticked, proc>>

NextPath ==
    \/ PathAdvance
    \/ /\ nreq < PathMaxRequests /\ now = 0
       /\ \E s \in Slots : receive_webhook(s, "ns1", 1, "json", "firing", "critical")
       /\ Observe /\ UNCHANGED <<ticked, proc, call>>
    \/ PathIntake
    \/ PathTick

\* the scheduler's job fires forever and its coroutine is resumed, the
\* handler of a request is resumed, and time passes (a minute can end
\* whenever the tick is idle, which it is again and again)
SpecPath ==
    /\ InitPath /\ [][NextPath]_vars
    /\ WF_vars(PathTick) /\ WF_vars(PathIntake) /\ SF_vars(PathAdvance)

\* the number of groups of the ticket's project
PathLength == Len(projects[1].notification_group_ids)

\* the MAX_LEVEL_REACHED events of a timeline
MaxLevelReached(t) ==
    {k \in 1..Len(t.events) : t.events[k].type = EV_MAX_LEVEL_REACHED}

\* the path is exhausted: level n after n - 1 escalations, one
\* MAX_LEVEL_REACHED event
Exhausted ==
    /\ Len(tickets) = 1
    /\ tickets[1].escalation_level = PathLength
    /\ Cardinality(MaxLevelReached(tickets[1])) = 1
    /\ call.escalations = PathLength - 1
    /\ call.max_levels = 1

\* C12: max-level one-shot.  Every stored timeline holds at most one
\* MAX_LEVEL_REACHED event; and once the scheduler has recorded the event for
\* the ticket, no later step of a tick writes the ticket while it is stored
\* at the last level (no group has a repeat interval).
C12_MaxLevelOneShot ==
    /\ [](\A i \in DOMAIN tickets : Cardinality(MaxLevelReached(tickets[i])) <= 1)
    /\ [][(/\ call.max_levels >= 1
           /\ tickets # <<>> /\ tickets[1].escalation_level = PathLength
           /\ tick' # tick)
             => tickets' = tickets]_vars

\* C40: escalation path exhaustion without repeats.  With n groups, none
\* with a repeat interval, the scheduler escalates the critical ticket at
\* most n - 1 times, each time by one level, and records MAX_LEVEL_REACHED at
\* most once; once it has recorded it, it never writes the ticket again; and
\* with ticks firing forever the ticket eventually is at level n with exactly
\* one MAX_LEVEL_REACHED event after exactly n - 1 escalations, and stays so.
C40_PathExhaustion ==
    /\ [](call.escalations <= PathLength - 1 /\ call.max_levels <= 1)
    /\ [][/\ call'.escalations # call.escalations =>
               tickets'[1].escalation_level = tickets[1].escalation_level + 1
          /\ call.max_levels >= 1 => call' = call]_vars
    /\ [](Len(tickets) = 1 => <>[]Exhausted)

====
